---- MODULE Spec2Model ----
(***************************************************************************)
(* A model of src/src/secp251k1/index.ts (noble-secp256k1): field and      *)
(* scalar arithmetic, Jacobian points, wNAF/GLV scalar multiplication with *)
(* the precompute cache, the byte codecs, the DER codec, the RFC 6979      *)
(* HMAC-DRBG, ECDSA sign / verify / recover and BIP-340 Schnorr.           *)
(*                                                                         *)
(* Scale.  The source computes with 256-bit bigints, which TLC cannot      *)
(* enumerate.  Every width of the source is divided by 32: one "field      *)
(* element" is 1 byte (8 bits) instead of 32 bytes (256 bits), and the     *)
(* curve is the Koblitz curve y^2 = x^3 + 7 over the prime field of        *)
(* CURVE_P = 163 elements, whose group has the prime order CURVE_n = 139.   *)
(* The scaled curve keeps the structural facts of secp256k1 the code rests *)
(* on: a = 0, b = 7, P = 3 (mod 4) so that sqrt is x^((P+1)/4), P = 1      *)
(* (mod 3) so that the endomorphism exists, cofactor 1, n < P < 2^bits,    *)
(* 2^(bits-1) < n (one subtraction reduces a hash), no curve point has     *)
(* x = 0 or y = 0, Gy is even, and the lattice basis (a1, b1, a2, b2) has  *)
(* a1 < |b1|, a2 = a1 - b1, b2 = a1.  All arithmetic is the source's       *)
(* arithmetic, statement by statement, on these numbers.                   *)
(*                                                                         *)
(* Exceptions.  A function of the source that can throw is modelled by two *)
(* operators: F_throws(args), true exactly when the call raises, and       *)
(* F(args), its value when it does not.                                    *)
(***************************************************************************)
EXTENDS Integers, Sequences, FiniteSets, TLC

\* ------------------------------------------------------------------------
\* Curve constants (scaled, see above)
\* ------------------------------------------------------------------------

\* Bits of a field element / scalar: the 256 of POW_2_256, truncateHash, wNAF.
FieldBits == 8

\* Bytes of a field element / scalar: the 32 of numTo32bStr, bits2int, fromHex.
FieldBytes == 1

\* const POW_2_256 = pow(_2n, BigInt(256))
POW_2_256 == 2 ^ FieldBits

\* const POW_2_128 = pow(_2n, BigInt(128))
POW_2_128 == 2 ^ (FieldBits \div 2)

\* CURVE.b
CURVE_b == 7

\* CURVE.P: the field prime
CURVE_P == 163

\* CURVE.n: the (prime) order of the curve group
CURVE_n == 139

\* CURVE.Gx, CURVE.Gy: the base point
CURVE_Gx == 2

CURVE_Gy == 34

\* CURVE.beta: a primitive cube root of unity mod P with
\* (beta * x, y) = lambda * (x, y)
CURVE_beta == 104

\* The lattice basis of splitScalarEndo
ENDO_a1 == 3

ENDO_b1 == -10

ENDO_a2 == 13

ENDO_b2 == ENDO_a1

\* Point.BASE._setWindowSize(8) at module load: the window of the base point
\* (8 of 256 bits in the source, 2 of 8 bits here)
BASE_WINDOW_SIZE == 2

\* ------------------------------------------------------------------------
\* bigint arithmetic of the language
\* ------------------------------------------------------------------------

\* JavaScript's a % b on bigints: the remainder has the sign of the dividend.
JsRem(a, b) == IF a >= 0 THEN a % b ELSE -((-a) % b)

\* JavaScript's a / b on bigints: the quotient truncates toward zero.
JsDiv(a, b) ==
  IF (a >= 0) = (b > 0)
    THEN (IF a >= 0 THEN a ELSE -a) \div (IF b > 0 THEN b ELSE -b)
    ELSE -((IF a >= 0 THEN a ELSE -a) \div (IF b > 0 THEN b ELSE -b))

\* mod(a, b = CURVE.P): `const result = a % b; return result >= 0 ? result :
\* b + result`.  JavaScript's a % b has the sign of a, so for a < 0 result is
\* -((-a) % b): zero, or negative and then b is added.
mod(a, b) ==
  IF a >= 0 THEN a % b
  ELSE IF (-a) % b = 0 THEN 0 ELSE b - ((-a) % b)

\* pow(a, b): b multiplications, not reduced
RECURSIVE pow(_, _)
pow(a, b) == IF b <= 0 THEN 1 ELSE a * pow(a, b - 1)

\* pow2(x, power): x ^ (2 ^ power) mod P by repeated squaring
RECURSIVE pow2(_, _)
pow2(x, power) ==
  IF power <= 0 THEN x ELSE pow2(JsRem(x * x, CURVE_P), power - 1)

\* weistrass(x) = x^3 + a*x + b mod P, with a = 0
weistrass(x) ==
  LET x2 == mod(x * x, CURVE_P)
      x3 == mod(x2 * x, CURVE_P)
  IN mod(x3 + 0 * x + CURVE_b, CURVE_P)

\* sqrtMod(x) = x ^ ((P+1)/4) mod P by a fixed addition chain.  (P+1)/4 = 41
\* = 101001b here; the source's chain follows the bits of its own (P+1)/4.
sqrtMod(x) ==
  LET b5 == JsRem(pow2(x, 2) * x, CURVE_P)      \* x^5
      t1 == JsRem(pow2(b5, 3) * x, CURVE_P)     \* x^41
  IN t1

\* The loop of invert: the extended Euclidean algorithm on (a, b, x, y, u, v).
\* Returns <<gcd, x>>.
RECURSIVE invertLoop(_, _, _, _, _, _)
invertLoop(a, b, x, y, u, v) ==
  IF a = 0 THEN <<b, x>>
  ELSE LET q == JsDiv(b, a)
           r == JsRem(b, a)
           m == x - u * q
           n == y - v * q
       IN invertLoop(r, a, u, v, m, n)

\* invert(number, modulo) raises on 0, on a modulus <= 0 and when gcd /= 1.
invert_throws(number, modulo) ==
  \/ number = 0
  \/ modulo <= 0
  \/ invertLoop(mod(number, modulo), modulo, 0, 1, 1, 0)[1] # 1

invert(number, modulo) ==
  mod(invertLoop(mod(number, modulo), modulo, 0, 1, 1, 0)[2], modulo)

\* isWithinCurveOrder(num): 0 < num < n
isWithinCurveOrder(num) == 0 < num /\ num < CURVE_n

\* isValidFieldElement(num): 0 < num < P
isValidFieldElement(num) == 0 < num /\ num < CURVE_P

\* normalizeScalar(num) raises unless 0 < num < n (bigint branch)
normalizeScalar_throws(num) == ~isWithinCurveOrder(num)

\* ------------------------------------------------------------------------
\* invertBatch
\* ------------------------------------------------------------------------

\* First loop of invertBatch: scratch[i] = acc, acc = acc * nums[i], zeros
\* skipped.  Returns <<scratch, acc>>; a skipped slot of scratch holds 0.
RECURSIVE invertBatchForward(_, _, _, _, _)
invertBatchForward(nums, n, i, scratch, acc) ==
  IF i > Len(nums) THEN <<scratch, acc>>
  ELSE IF nums[i] = 0
    THEN invertBatchForward(nums, n, i + 1, Append(scratch, 0), acc)
    ELSE invertBatchForward(nums, n, i + 1, Append(scratch, acc),
                            mod(acc * nums[i], n))

\* Second loop of invertBatch, from the last index down, writing into nums.
RECURSIVE invertBatchBackward(_, _, _, _, _)
invertBatchBackward(nums, n, i, scratch, acc) ==
  IF i < 1 THEN nums
  ELSE IF nums[i] = 0
    THEN invertBatchBackward(nums, n, i - 1, scratch, acc)
    ELSE LET tmp == mod(acc * nums[i], n)
         IN invertBatchBackward([nums EXCEPT ![i] = mod(acc * scratch[i], n)],
                                n, i - 1, scratch, tmp)

\* An invertBatch that forgets the products it kept in scratch
invertBatch_Unscratched(nums, n) ==
  invertBatchBackward(nums, n, Len(nums), [i \in 1..Len(nums) |-> 1],
                      invert(invertBatchForward(nums, n, 1, <<>>, 1)[2], n))

invertBatch_throws(nums, n) ==
  invert_throws(invertBatchForward(nums, n, 1, <<>>, 1)[2], n)

invertBatch(nums, n) ==
  LET fw == invertBatchForward(nums, n, 1, <<>>, 1)
  IN invertBatchBackward(nums, n, Len(nums), fw[1], invert(fw[2], n))

\* ------------------------------------------------------------------------
\* Points.  An affine Point is [x, y]; a JacobianPoint is [x, y, z].
\* ------------------------------------------------------------------------

Point(x, y) == [x |-> x, y |-> y]

JacobianPoint(x, y, z) == [x |-> x, y |-> y, z |-> z]

\* Point.BASE, Point.ZERO
Point_BASE == Point(CURVE_Gx, CURVE_Gy)

Point_ZERO == Point(0, 0)

\* JacobianPoint.BASE, JacobianPoint.ZERO
JacobianPoint_BASE == JacobianPoint(CURVE_Gx, CURVE_Gy, 1)

JacobianPoint_ZERO == JacobianPoint(0, 1, 0)

\* JacobianPoint.fromAffine
fromAffine(p) == JacobianPoint(p.x, p.y, 1)

\* JacobianPoint#equals
JacobianPoint_equals(a, b) ==
  LET az2 == mod(a.z * a.z, CURVE_P)
      az3 == mod(a.z * az2, CURVE_P)
      bz2 == mod(b.z * b.z, CURVE_P)
      bz3 == mod(b.z * bz2, CURVE_P)
  IN /\ mod(a.x * bz2, CURVE_P) = mod(az2 * b.x, CURVE_P)
     /\ mod(a.y * bz3, CURVE_P) = mod(az3 * b.y, CURVE_P)

\* JacobianPoint#negate
JacobianPoint_negate(p) == JacobianPoint(p.x, mod(-p.y, CURVE_P), p.z)

\* JacobianPoint#double
JacobianPoint_double(p) ==
  LET X1 == p.x
      Y1 == p.y
      Z1 == p.z
      A == mod(pow(X1, 2), CURVE_P)
      B == mod(pow(Y1, 2), CURVE_P)
      C == mod(pow(B, 2), CURVE_P)
      D == mod(2 * (mod(mod(pow(X1 + B, 2), CURVE_P), CURVE_P) - A - C), CURVE_P)
      E == mod(3 * A, CURVE_P)
      F == mod(pow(E, 2), CURVE_P)
      X3 == mod(F - 2 * D, CURVE_P)
      Y3 == mod(E * (D - X3) - 8 * C, CURVE_P)
      Z3 == mod(2 * Y1 * Z1, CURVE_P)
  IN JacobianPoint(X3, Y3, Z3)

\* JacobianPoint#add from `const HH` on, where H /= 0
JacobianPoint_add_H(Z1, Z2, U1, S1, H, r) ==
  LET HH == mod(pow(H, 2), CURVE_P)
      HHH == mod(H * HH, CURVE_P)
      V == mod(U1 * HH, CURVE_P)
      X3 == mod(pow(r, 2) - HHH - 2 * V, CURVE_P)
      Y3 == mod(r * (V - X3) - S1 * HHH, CURVE_P)
      Z3 == mod(Z1 * Z2 * H, CURVE_P)
  IN JacobianPoint(X3, Y3, Z3)

\* JacobianPoint#add without the branch for H = 0: the general formulas are
\* applied to points of equal x as well
JacobianPoint_add_NoEqualX(this, other) ==
  LET Z1Z1 == mod(pow(this.z, 2), CURVE_P)
      Z2Z2 == mod(pow(other.z, 2), CURVE_P)
      U1 == mod(this.x * Z2Z2, CURVE_P)
      U2 == mod(other.x * Z1Z1, CURVE_P)
      S1 == mod(this.y * other.z * Z2Z2, CURVE_P)
      S2 == mod(mod(other.y * this.z, CURVE_P) * Z1Z1, CURVE_P)
  IN IF other.x = 0 \/ other.y = 0 THEN this
     ELSE IF this.x = 0 \/ this.y = 0 THEN other
     ELSE JacobianPoint_add_H(this.z, other.z, U1, S1,
                              mod(U2 - U1, CURVE_P), mod(S2 - S1, CURVE_P))

\* JacobianPoint#add
JacobianPoint_add(this, other) ==
  LET X1 == this.x
      Y1 == this.y
      Z1 == this.z
      X2 == other.x
      Y2 == other.y
      Z2 == other.z
      Z1Z1 == mod(pow(Z1, 2), CURVE_P)
      Z2Z2 == mod(pow(Z2, 2), CURVE_P)
      U1 == mod(X1 * Z2Z2, CURVE_P)
      U2 == mod(X2 * Z1Z1, CURVE_P)
      S1 == mod(Y1 * Z2 * Z2Z2, CURVE_P)
      S2 == mod(mod(Y2 * Z1, CURVE_P) * Z1Z1, CURVE_P)
      H == mod(U2 - U1, CURVE_P)
      r == mod(S2 - S1, CURVE_P)
  IN IF X2 = 0 \/ Y2 = 0 THEN this
     ELSE IF X1 = 0 \/ Y1 = 0 THEN other
     ELSE IF H = 0
       THEN (IF r = 0 THEN JacobianPoint_double(this) ELSE JacobianPoint_ZERO)
       ELSE JacobianPoint_add_H(Z1, Z2, U1, S1, H, r)

\* JacobianPoint#subtract
JacobianPoint_subtract(this, other) ==
  JacobianPoint_add(this, JacobianPoint_negate(other))

\* JacobianPoint#toAffine(invZ) with invZ given (from invertBatch)
toAffineWith(p, invZ) ==
  LET invZ2 == pow(invZ, 2)
      x == mod(p.x * invZ2, CURVE_P)
      y == mod(p.y * invZ2 * invZ, CURVE_P)
  IN Point(x, y)

\* JacobianPoint#toAffine() with the default invZ = invert(this.z): raises
\* when z = 0, that is for JacobianPoint.ZERO
toAffine_throws(p) == invert_throws(p.z, CURVE_P)

toAffine(p) == toAffineWith(p, invert(p.z, CURVE_P))

\* JacobianPoint.toAffineBatch
toAffineBatch(points) ==
  LET toInv == invertBatch([i \in 1..Len(points) |-> points[i].z], CURVE_P)
  IN [i \in 1..Len(points) |-> toAffineWith(points[i], toInv[i])]

\* JacobianPoint.normalizeZ
normalizeZ(points) ==
  LET aff == toAffineBatch(points)
  IN [i \in 1..Len(points) |-> fromAffine(aff[i])]

\* ------------------------------------------------------------------------
\* GLV endomorphism
\* ------------------------------------------------------------------------

\* divNearest(a, b) = (a + b / 2) / b
divNearest(a, b) == JsDiv(a + JsDiv(b, 2), b)

\* splitScalarEndo(k): [k1neg, k1, k2neg, k2], and whether it raises
\* 'Endomorphism failed'
splitScalarEndoRaw(k) ==
  LET n == CURVE_n
      c1 == divNearest(ENDO_b2 * k, n)
      c2 == divNearest(-ENDO_b1 * k, n)
      k1 == mod(k - c1 * ENDO_a1 - c2 * ENDO_a2, n)
      k2 == mod(-c1 * ENDO_b1 - c2 * ENDO_b2, n)
      k1neg == k1 > POW_2_128
      k2neg == k2 > POW_2_128
  IN [k1neg |-> k1neg, k1 |-> IF k1neg THEN n - k1 ELSE k1,
      k2neg |-> k2neg, k2 |-> IF k2neg THEN n - k2 ELSE k2]

splitScalarEndo_throws(k) ==
  LET s == splitScalarEndoRaw(k)
  IN s.k1 > POW_2_128 \/ s.k2 > POW_2_128

\* A splitScalarEndo that forgets that it negated the first half
splitScalarEndo_LostSign(k) == [splitScalarEndoRaw(k) EXCEPT !.k1neg = FALSE]

splitScalarEndo(k) == splitScalarEndoRaw(k)

\* ------------------------------------------------------------------------
\* Scalar multiplication
\* ------------------------------------------------------------------------

\* The loop of multiplyUnsafe (endomorphism branch): returns <<k1p, k2p>>.
RECURSIVE multiplyUnsafeLoop(_, _, _, _, _)
multiplyUnsafeLoop(k1, k2, k1p, k2p, d) ==
  IF ~(k1 > 0 \/ k2 > 0) THEN <<k1p, k2p>>
  ELSE multiplyUnsafeLoop(
         k1 \div 2, k2 \div 2,
         IF k1 % 2 = 1 THEN JacobianPoint_add(k1p, d) ELSE k1p,
         IF k2 % 2 = 1 THEN JacobianPoint_add(k2p, d) ELSE k2p,
         JacobianPoint_double(d))

\* JacobianPoint#multiplyUnsafe(scalar)
multiplyUnsafe_throws(this, scalar) ==
  normalizeScalar_throws(scalar) \/ splitScalarEndo_throws(scalar)

\* JacobianPoint#multiplyUnsafe(scalar) after its loop: l = <<k1p, k2p>>
multiplyUnsafe_join(s, l) ==
  LET k1p == IF s.k1neg THEN JacobianPoint_negate(l[1]) ELSE l[1]
      k2n == IF s.k2neg THEN JacobianPoint_negate(l[2]) ELSE l[2]
      k2p == JacobianPoint(mod(k2n.x * CURVE_beta, CURVE_P), k2n.y, k2n.z)
  IN JacobianPoint_add(k1p, k2p)

multiplyUnsafe(this, scalar) ==
  LET s == splitScalarEndo(scalar)
  IN multiplyUnsafe_join(s, multiplyUnsafeLoop(s.k1, s.k2, JacobianPoint_ZERO,
                                               JacobianPoint_ZERO, this))

\* Number of iterations of `for (window = 0; window < windows; window++)`
\* with windows = 128 / W + 1 (a float when W does not divide 128)
windowCount(W) == ((FieldBits \div 2) + W - 1) \div W + 1

\* Inner loop of precomputeWindow: pushes base + p, ..., for i = 1 .. 2^(W-1)-1.
\* Returns <<points, base>>.
RECURSIVE precomputeInner(_, _, _, _, _)
precomputeInner(points, base, p, i, W) ==
  IF i >= 2 ^ (W - 1) THEN <<points, base>>
  ELSE LET b == JacobianPoint_add(base, p)
       IN precomputeInner(Append(points, b), b, p, i + 1, W)

\* Outer loop of precomputeWindow
RECURSIVE precomputeOuter(_, _, _, _)
precomputeOuter(points, p, window, W) ==
  IF window >= windowCount(W) THEN points
  ELSE LET inner == precomputeInner(Append(points, p), p, p, 1, W)
       IN precomputeOuter(inner[1], JacobianPoint_double(inner[2]),
                          window + 1, W)

\* JacobianPoint#precomputeWindow(W)
precomputeWindow(this, W) == precomputeOuter(<<>>, this, 0, W)

\* ------------------------------------------------------------------------
\* The precompute cache.  pointPrecomputes is a WeakMap keyed by the Point
\* object; WINDOW_SIZE is the object's _WINDOW_SIZE.  Point objects are named
\* by an id; NoPoint stands for an absent affinePoint argument, NewPoint for
\* a Point object fresh from its constructor (no _WINDOW_SIZE, no entry),
\* NoTable for a missing cache entry and 0 for an undefined _WINDOW_SIZE.
\* ------------------------------------------------------------------------

NoPoint == "none"

NewPoint == "new"

\* Ids of the Point objects that can carry a window size and a cache entry:
\* Point.BASE, and the object utils.precompute makes for another point
PointIds == {"BASE", "Q"}

NoTable == <<>>

\* if (!affinePoint && this.equals(JacobianPoint.BASE)) affinePoint = Point.BASE
wNAF_affinePoint(this, affinePoint) ==
  IF affinePoint = NoPoint /\ JacobianPoint_equals(this, JacobianPoint_BASE)
    THEN "BASE" ELSE affinePoint

\* const W = (affinePoint && affinePoint._WINDOW_SIZE) || 1
wNAF_W(ap, ws) == IF ap \notin PointIds \/ ws[ap] = 0 THEN 1 ELSE ws[ap]

\* if (256 % W) throw
wNAF_throws(this, affinePoint, ws) ==
  FieldBits % wNAF_W(wNAF_affinePoint(this, affinePoint), ws) # 0

\* The table wNAF works with: the cached one, or a fresh one, normalized when
\* it is about to be stored
wNAF_precomputes(this, affinePoint, cache, ws) ==
  LET ap == wNAF_affinePoint(this, affinePoint)
      W == wNAF_W(ap, ws)
  IN IF ap \in PointIds /\ cache[ap] # NoTable THEN cache[ap]
     ELSE IF ap # NoPoint /\ W # 1 THEN normalizeZ(precomputeWindow(this, W))
     ELSE precomputeWindow(this, W)

\* pointPrecomputes after the call: pointPrecomputes.set(affinePoint, ...)
wNAF_cache(this, affinePoint, cache, ws) ==
  LET ap == wNAF_affinePoint(this, affinePoint)
      W == wNAF_W(ap, ws)
  IN IF ap \in PointIds /\ cache[ap] = NoTable /\ W # 1
       THEN [cache EXCEPT ![ap] = normalizeZ(precomputeWindow(this, W))]
       ELSE cache

\* How many times wNAF calls precomputeWindow: once when `!precomputes`
wNAF_builds(this, affinePoint, cache) ==
  LET ap == wNAF_affinePoint(this, affinePoint)
  IN IF ap \in PointIds /\ cache[ap] # NoTable THEN 0 ELSE 1

\* A _setWindowSize that leaves the cache entry in place
setWindowSize_cache_Kept(cache, id) == cache

\* Point#_setWindowSize(windowSize) of the Point object `id`
setWindowSize_ws(ws, id, windowSize) == [ws EXCEPT ![id] = windowSize]

\* pointPrecomputes.delete(this)
setWindowSize_cache(cache, id) == [cache EXCEPT ![id] = NoTable]

\* One addition of the window loop, as the entry of `adds`
wNAF_added(to, wbits) == [to |-> to, wbits |-> wbits]

\* A window loop that adds nothing on a zero window
RECURSIVE wNAF_loop_NoFake(_, _, _, _, _, _, _)
wNAF_loop_NoFake(n, window, p, f, adds, precomputes, W) ==
  IF window >= windowCount(W) THEN [p |-> p, f |-> f, adds |-> adds, n |-> n]
  ELSE
    LET maxNumber == 2 ^ W
        split == n % maxNumber > 2 ^ (W - 1)
        wbits == IF split THEN (n % maxNumber) - maxNumber ELSE n % maxNumber
        n2 == IF split THEN (n \div maxNumber) + 1 ELSE n \div maxNumber
        absw == IF wbits < 0 THEN -wbits ELSE wbits
        cached0 == precomputes[window * 2 ^ (W - 1) + absw]
        cached == IF wbits < 0 THEN JacobianPoint_negate(cached0) ELSE cached0
    IN IF wbits = 0
         THEN wNAF_loop_NoFake(n2, window + 1, p, f, adds, precomputes, W)
         ELSE wNAF_loop_NoFake(n2, window + 1, JacobianPoint_add(p, cached),
                               f, Append(adds, wNAF_added("p", wbits)),
                               precomputes, W)

\* A window loop that adds the table entry of a negative digit as it is
RECURSIVE wNAF_loop_Unsigned(_, _, _, _, _, _, _)
wNAF_loop_Unsigned(n, window, p, f, adds, precomputes, W) ==
  IF window >= windowCount(W) THEN [p |-> p, f |-> f, adds |-> adds, n |-> n]
  ELSE
    LET maxNumber == 2 ^ W
        split == n % maxNumber > 2 ^ (W - 1)
        wbits == IF split THEN (n % maxNumber) - maxNumber ELSE n % maxNumber
        n2 == IF split THEN (n \div maxNumber) + 1 ELSE n \div maxNumber
        absw == IF wbits < 0 THEN -wbits ELSE wbits
        pr0 == precomputes[window * 2 ^ (W - 1) + 1]
        pr == IF window % 2 = 1 THEN JacobianPoint_negate(pr0) ELSE pr0
    IN IF wbits = 0
         THEN wNAF_loop_Unsigned(n2, window + 1, p, JacobianPoint_add(f, pr),
                                 Append(adds, wNAF_added("f", wbits)),
                                 precomputes, W)
         ELSE wNAF_loop_Unsigned(
                n2, window + 1,
                JacobianPoint_add(p, precomputes[window * 2 ^ (W - 1) + absw]),
                f, Append(adds, wNAF_added("p", wbits)), precomputes, W)

\* The window loop of wNAF.  Returns [p, f, adds, n]: the real and the fake
\* accumulator, per window which of the two received the addition and the
\* signed digit of the window, and what is left of n.
RECURSIVE wNAF_loop(_, _, _, _, _, _, _)
wNAF_loop(n, window, p, f, adds, precomputes, W) ==
  IF window >= windowCount(W) THEN [p |-> p, f |-> f, adds |-> adds, n |-> n]
  ELSE
    LET windowSize == 2 ^ (W - 1)
        maxNumber == 2 ^ W
        offset == window * windowSize
        wbits0 == n % maxNumber                \* Number(n & mask)
        n1 == n \div maxNumber                 \* n >>= shiftBy
        split == wbits0 > windowSize
        wbits == IF split THEN wbits0 - maxNumber ELSE wbits0
        n2 == IF split THEN n1 + 1 ELSE n1
        pr0 == precomputes[offset + 1]
        pr == IF window % 2 = 1 THEN JacobianPoint_negate(pr0) ELSE pr0
        absw == IF wbits < 0 THEN -wbits ELSE wbits
        cached0 == precomputes[offset + absw - 1 + 1]
        cached == IF wbits < 0 THEN JacobianPoint_negate(cached0) ELSE cached0
    IN IF wbits = 0
         THEN wNAF_loop(n2, window + 1, p, JacobianPoint_add(f, pr),
                        Append(adds, wNAF_added("f", wbits)), precomputes, W)
         ELSE wNAF_loop(n2, window + 1, JacobianPoint_add(p, cached), f,
                        Append(adds, wNAF_added("p", wbits)), precomputes, W)

\* JacobianPoint#wNAF(n, affinePoint): [p, f, adds, n]
wNAF(this, n, affinePoint, cache, ws) ==
  wNAF_loop(n, 0, JacobianPoint_ZERO, JacobianPoint_ZERO, <<>>,
            wNAF_precomputes(this, affinePoint, cache, ws),
            wNAF_W(wNAF_affinePoint(this, affinePoint), ws))

\* JacobianPoint#multiply(scalar, affinePoint)
multiply_throws(this, scalar, affinePoint, ws) ==
  \/ normalizeScalar_throws(scalar)
  \/ splitScalarEndo_throws(scalar)
  \/ wNAF_throws(this, affinePoint, ws)

\* multiply_join without the endomorphism: k2p is not mapped by beta
multiply_join_NoBeta(s, w1, w2) ==
  LET k1p == IF s.k1neg THEN JacobianPoint_negate(w1.p) ELSE w1.p
      k2p == IF s.k2neg THEN JacobianPoint_negate(w2.p) ELSE w2.p
  IN normalizeZ(<<JacobianPoint_add(k1p, k2p),
                  JacobianPoint_add(w1.f, w2.f)>>)[1]

\* JacobianPoint#multiply(scalar, affinePoint) after its two wNAF calls
multiply_join(s, w1, w2) ==
  LET k1p == IF s.k1neg THEN JacobianPoint_negate(w1.p) ELSE w1.p
      k2n == IF s.k2neg THEN JacobianPoint_negate(w2.p) ELSE w2.p
      k2p == JacobianPoint(mod(k2n.x * CURVE_beta, CURVE_P), k2n.y, k2n.z)
      point == JacobianPoint_add(k1p, k2p)
      fake == JacobianPoint_add(w1.f, w2.f)
  IN normalizeZ(<<point, fake>>)[1]

multiply(this, scalar, affinePoint, cache, ws) ==
  LET s == splitScalarEndo(scalar)
  IN multiply_join(s, wNAF(this, s.k1, affinePoint, cache, ws),
                   wNAF(this, s.k2, affinePoint,
                        wNAF_cache(this, affinePoint, cache, ws), ws))

\* pointPrecomputes after JacobianPoint#multiply
multiply_cache(this, affinePoint, cache, ws) ==
  wNAF_cache(this, affinePoint, cache, ws)

\* Point#multiply(scalar) of the Point object `id` with coordinates pt
Point_multiply_throws(pt, id, scalar, ws) ==
  multiply_throws(fromAffine(pt), scalar, id, ws)

Point_multiply(pt, id, scalar, cache, ws) ==
  toAffine(multiply(fromAffine(pt), scalar, id, cache, ws))

\* ------------------------------------------------------------------------
\* Bytes and numbers.  A Uint8Array is a sequence of 0..255; a hex string is
\* modelled by the bytes it spells (two digits per byte).
\* ------------------------------------------------------------------------

Min(a, b) == IF a < b THEN a ELSE b

\* bytes.subarray(from, to) / bytes.slice(from, to), 0-based, to exclusive,
\* clamped to the length
subarray(bytes, from, to) ==
  SubSeq(bytes, Min(from, Len(bytes)) + 1, Min(to, Len(bytes)))

\* bytesToNumber(bytes) = BigInt('0x' + hex): raises a SyntaxError on the
\* empty array, since BigInt('0x') is not a number
bytesToNumber_throws(bytes) == Len(bytes) = 0

RECURSIVE bytesToNumber(_)
bytesToNumber(bytes) ==
  IF Len(bytes) = 0 THEN 0
  ELSE 256 * bytesToNumber(SubSeq(bytes, 1, Len(bytes) - 1)) + bytes[Len(bytes)]

\* numberToHex(num): the shortest whole number of bytes, big-endian
RECURSIVE numberToHex(_)
numberToHex(num) ==
  IF num < 256 THEN <<num>>
  ELSE Append(numberToHex(num \div 256), num % 256)

\* padStart(64, '0')
RECURSIVE padStart(_, _)
padStart(bytes, len) ==
  IF Len(bytes) >= len THEN bytes ELSE padStart(<<0>> \o bytes, len)

\* numTo32b(num) = hexToBytes(numTo32bStr(num)): raises when num > 2^256, and
\* at num = 2^256, whose hex has an odd number of digits
numTo32b_throws(num) == num >= POW_2_256

numTo32b(num) == padStart(numberToHex(num), FieldBytes)

\* ------------------------------------------------------------------------
\* DER codec
\* ------------------------------------------------------------------------

\* A sliceDER that never puts a byte in front
sliceDER_Bare(bytes) == bytes

\* sliceDER(s): '00' is put in front when the first hex digit is >= 8
sliceDER(bytes) == IF bytes[1] >= 128 THEN <<0>> \o bytes ELSE bytes

\* A parseDERInt that lets a padded integer through
parseDERInt_throws_Padded(data) ==
  \/ Len(data) < 2
  \/ data[1] # 2
  \/ LET len == data[2]
         res == subarray(data, 2, len + 2)
     IN len = 0 \/ Len(res) # len

\* parseDERInt(data)
parseDERInt_throws(data) ==
  \/ Len(data) < 2
  \/ data[1] # 2
  \/ LET len == data[2]
         res == subarray(data, 2, len + 2)
     IN \/ len = 0
        \/ Len(res) # len
        \/ (res[1] = 0 /\ Len(res) >= 2 /\ res[2] <= 127)

parseDERInt(data) ==
  LET len == data[2]
      res == subarray(data, 2, len + 2)
  IN [data |-> bytesToNumber(res), left |-> subarray(data, len + 2, Len(data))]

\* parseDERSignature(data)
parseDERSignature_throws(data) ==
  \/ Len(data) < 2
  \/ data[1] # 48
  \/ data[2] # Len(data) - 2
  \/ parseDERInt_throws(subarray(data, 2, Len(data)))
  \/ parseDERInt_throws(parseDERInt(subarray(data, 2, Len(data))).left)
  \/ Len(parseDERInt(parseDERInt(subarray(data, 2, Len(data))).left).left) # 0

parseDERSignature(data) ==
  LET first == parseDERInt(subarray(data, 2, Len(data)))
      second == parseDERInt(first.left)
  IN [r |-> first.data, s |-> second.data]

\* ------------------------------------------------------------------------
\* class Signature: [r, s]
\* ------------------------------------------------------------------------

\* What reading a signature depends on besides the bytes: the byte length of
\* r and of s (the 32 of fromCompact and numTo32b) and the group order of
\* assertValidity
SigCodec(bytes, n) == [bytes |-> bytes, n |-> n]

CurveCodec == SigCodec(FieldBytes, CURVE_n)

\* new Signature(r, s) runs assertValidity
Signature_throws_in(c, r, s) == ~(0 < r /\ r < c.n) \/ ~(0 < s /\ s < c.n)

Signature_throws(r, s) == Signature_throws_in(CurveCodec, r, s)

Signature(r, s) == [r |-> r, s |-> s]

\* Signature.fromCompact(hex)
fromCompact_throws_in(c, bytes) ==
  \/ Len(bytes) # 2 * c.bytes
  \/ Signature_throws_in(c, bytesToNumber(subarray(bytes, 0, c.bytes)),
                         bytesToNumber(subarray(bytes, c.bytes, 2 * c.bytes)))

fromCompact_in(c, bytes) ==
  Signature(bytesToNumber(subarray(bytes, 0, c.bytes)),
            bytesToNumber(subarray(bytes, c.bytes, 2 * c.bytes)))

fromCompact_throws(bytes) == fromCompact_throws_in(CurveCodec, bytes)

fromCompact(bytes) == fromCompact_in(CurveCodec, bytes)

\* Signature.fromDER(hex)
fromDER_throws_in(c, bytes) ==
  \/ parseDERSignature_throws(bytes)
  \/ Signature_throws_in(c, parseDERSignature(bytes).r,
                         parseDERSignature(bytes).s)

fromDER_throws(bytes) == fromDER_throws_in(CurveCodec, bytes)

fromDER(bytes) ==
  Signature(parseDERSignature(bytes).r, parseDERSignature(bytes).s)

\* A hasHighS that compares s with n instead of n / 2
hasHighS_WholeOrder(sig) == sig.s > CURVE_n

\* Signature#hasHighS
hasHighS(sig) ==
  LET HALF == CURVE_n \div 2      \* CURVE.n >> 1
  IN sig.s > HALF

\* Signature#normalizeS
normalizeS(sig) ==
  IF hasHighS(sig) THEN Signature(sig.r, CURVE_n - sig.s) ELSE sig

\* Signature#toDERRawBytes / toDERHex
toDERRawBytes(sig) ==
  LET sHex == sliceDER(numberToHex(sig.s))
      rHex == sliceDER(numberToHex(sig.r))
      rLen == numberToHex(Len(rHex))
      sLen == numberToHex(Len(sHex))
      length == numberToHex(Len(rHex) + Len(sHex) + 4)
  IN <<48>> \o length \o <<2>> \o rLen \o rHex \o <<2>> \o sLen \o sHex

\* Signature#toCompactRawBytes / toCompactHex
toCompactRawBytes_in(c, sig) ==
  padStart(numberToHex(sig.r), c.bytes) \o padStart(numberToHex(sig.s), c.bytes)

toCompactRawBytes(sig) == numTo32b(sig.r) \o numTo32b(sig.s)

\* normalizeSignature(signature) for a byte input: DER first, compact when
\* the DER parse raised
normalizeSignature_throws_in(c, bytes) ==
  fromDER_throws_in(c, bytes) /\ fromCompact_throws_in(c, bytes)

normalizeSignature_in(c, bytes) ==
  IF ~fromDER_throws_in(c, bytes) THEN fromDER(bytes)
  ELSE fromCompact_in(c, bytes)

normalizeSignature_throws(bytes) == normalizeSignature_throws_in(CurveCodec, bytes)

normalizeSignature(bytes) == normalizeSignature_in(CurveCodec, bytes)

\* ------------------------------------------------------------------------
\* class Point: decoding, encoding, validity
\* ------------------------------------------------------------------------

\* Point#assertValidity
assertValidity_throws(p) ==
  \/ ~isValidFieldElement(p.x)
  \/ ~isValidFieldElement(p.y)
  \/ mod(mod(p.y * p.y, CURVE_P) - weistrass(p.x), CURVE_P) # 0

\* Point.fromCompressedHex(bytes): 32 bytes (Schnorr, even y) or 33 bytes
fromCompressedHex_point(bytes) ==
  LET isShort == Len(bytes) = FieldBytes
      x == bytesToNumber(IF isShort THEN bytes ELSE subarray(bytes, 1, Len(bytes)))
      y2 == weistrass(x)
      y == sqrtMod(y2)
      isYOdd == y % 2 = 1
      isFirstByteOdd == bytes[1] % 2 = 1
  IN IF isShort
       THEN Point(x, IF isYOdd THEN mod(-y, CURVE_P) ELSE y)
       ELSE Point(x, IF isFirstByteOdd # isYOdd THEN mod(-y, CURVE_P) ELSE y)

fromCompressedHex_throws(bytes) ==
  \/ ~isValidFieldElement(
        bytesToNumber(IF Len(bytes) = FieldBytes THEN bytes
                      ELSE subarray(bytes, 1, Len(bytes))))
  \/ assertValidity_throws(fromCompressedHex_point(bytes))

\* Point.fromUncompressedHex(bytes)
fromUncompressedHex_point(bytes) ==
  Point(bytesToNumber(subarray(bytes, 1, FieldBytes + 1)),
        bytesToNumber(subarray(bytes, FieldBytes + 1, Len(bytes))))

\* Point.fromHex(hex)
isCompressedInput(bytes) ==
  \/ Len(bytes) = FieldBytes
  \/ (Len(bytes) = FieldBytes + 1 /\ bytes[1] \in {2, 3})

isUncompressedInput(bytes) == Len(bytes) = 2 * FieldBytes + 1 /\ bytes[1] = 4

Point_fromHex_throws(bytes) ==
  IF isCompressedInput(bytes) THEN fromCompressedHex_throws(bytes)
  ELSE IF isUncompressedInput(bytes)
    THEN assertValidity_throws(fromUncompressedHex_point(bytes))
    ELSE TRUE

Point_fromHex(bytes) ==
  IF isCompressedInput(bytes) THEN fromCompressedHex_point(bytes)
  ELSE fromUncompressedHex_point(bytes)

\* Point#toRawBytes(isCompressed) / toHex
Point_toRawBytes(p, isCompressed) ==
  IF isCompressed
    THEN <<IF p.y % 2 = 1 THEN 3 ELSE 2>> \o numTo32b(p.x)
    ELSE <<4>> \o numTo32b(p.x) \o numTo32b(p.y)

\* Point#toRawX
Point_toRawX(p) == subarray(Point_toRawBytes(p, TRUE), 1, FieldBytes + 1)

\* normalizePrivateKey(key) for a bigint key
normalizePrivateKey_throws(key) == ~isWithinCurveOrder(key)

\* normalizePublicKey(publicKey) for a byte input
normalizePublicKey_throws(bytes) == Point_fromHex_throws(bytes)

normalizePublicKey(bytes) == Point_fromHex(bytes)

\* Point.fromPrivateKey(privateKey) = Point.BASE.multiply(normalizePrivateKey(..))
fromPrivateKey_throws(key) == normalizePrivateKey_throws(key)

fromPrivateKey(key, cache, ws) ==
  Point_multiply(Point_BASE, "BASE", key, cache, ws)

fromPrivateKey_cache(key, cache, ws) ==
  multiply_cache(JacobianPoint_BASE, "BASE", cache, ws)

\* getPublicKey(privateKey, isCompressed)
getPublicKey_throws(key) == fromPrivateKey_throws(key)

getPublicKey(key, isCompressed, cache, ws) ==
  Point_toRawBytes(fromPrivateKey(key, cache, ws), isCompressed)

\* ------------------------------------------------------------------------
\* Hash truncation and the RFC 6979 conversions
\* ------------------------------------------------------------------------

\* h >> delta
RECURSIVE shiftRight(_, _)
shiftRight(h, delta) == IF delta <= 0 THEN h ELSE shiftRight(h \div 2, delta - 1)

\* truncateHash(hash)
truncateHash_throws(hash) == bytesToNumber_throws(hash)

truncateHash(hash) ==
  LET n == CURVE_n
      byteLength == Len(hash)
      delta == byteLength * 8 - FieldBits
      h0 == bytesToNumber(hash)
      h1 == IF delta > 0 THEN shiftRight(h0, delta) ELSE h0
  IN IF h1 >= n THEN h1 - n ELSE h1

\* bits2int(bytes)
bits2int_throws(bytes) == bytesToNumber_throws(bytes)

bits2int(bytes) ==
  bytesToNumber(IF Len(bytes) > FieldBytes THEN subarray(bytes, 0, FieldBytes)
                ELSE bytes)

\* int2octets(num)
int2octets(num) == numTo32b(num)

\* bits2octets(bytes)
bits2octets(bytes) ==
  LET z1 == bits2int(bytes)
      z2 == mod(z1, CURVE_n)
  IN int2octets(IF z2 < 0 THEN z1 ELSE z2)

\* ------------------------------------------------------------------------
\* The injected primitives.  utils.hmacSha256 and utils.sha256 are supplied
\* by the environment; the core only relies on each being a deterministic
\* function from bytes to one field-sized block.  `fn` selects one function
\* of a small family.
\* ------------------------------------------------------------------------

RECURSIVE digest(_, _)
digest(acc, bytes) ==
  IF Len(bytes) = 0 THEN acc
  ELSE digest((acc * 7 + bytes[1] + 3) % 251, Tail(bytes))

\* utils.hmacSha256(key, ...messages), messages concatenated.  A negative fn
\* is an installed function that returns the same block whatever it is
\* given: the block of the number -fn - 1.
hmacSha256(fn, key, message) ==
  IF fn < 0 THEN padStart(numberToHex((0 - fn - 1) % POW_2_256), FieldBytes)
  ELSE padStart(numberToHex(
         (digest(digest(fn * 97 + 1, key) + 13, message) * 5 + fn) % POW_2_256),
         FieldBytes)

\* utils.sha256(message)
sha256(fn, message) ==
  padStart(numberToHex((digest(fn * 41 + 11, message) * 3 + fn) % POW_2_256),
           FieldBytes)

\* ------------------------------------------------------------------------
\* class HmacDrbg: [k, v, counter]
\* ------------------------------------------------------------------------

\* The 1000 of HmacDrbg#incr
DRBG_MAX_TRIES == 1000

\* new HmacDrbg(): v = 0x01 0x01 ..., k = 0x00 0x00 ..., counter = 0
HmacDrbg_new ==
  [k |-> [i \in 1..FieldBytes |-> 0], v |-> [i \in 1..FieldBytes |-> 1],
   counter |-> 0]

\* HmacDrbg#reseed(seed) and reseedSync(seed)
reseed(fn, drbg, seed) ==
  LET k1 == hmacSha256(fn, drbg.k, drbg.v \o <<0>> \o seed)
      v1 == hmacSha256(fn, k1, drbg.v)
      k2 == hmacSha256(fn, k1, v1 \o <<1>> \o seed)
      v2 == hmacSha256(fn, k2, v1)
  IN IF Len(seed) = 0
       THEN [drbg EXCEPT !.k = k1, !.v = v1]
       ELSE [drbg EXCEPT !.k = k2, !.v = v2]

\* An incr that lets one more generate through
incr_throws_Late(drbg) == drbg.counter > DRBG_MAX_TRIES

\* HmacDrbg#incr raises once the counter has reached 1000
incr_throws(drbg) == drbg.counter >= DRBG_MAX_TRIES

\* HmacDrbg#generate() and generateSync(): the drbg after the call; the
\* bytes returned are its v
generate(fn, drbg) ==
  [drbg EXCEPT !.counter = drbg.counter + 1,
               !.v = hmacSha256(fn, drbg.k, drbg.v)]

\* ------------------------------------------------------------------------
\* ECDSA signing
\* ------------------------------------------------------------------------

\* An absent extraEntropy option
NoEntropy == [given |-> FALSE, bytes |-> <<>>]

\* initSigArgs(msgHash, privateKey, extraEntropy)
initSigArgs_throws(msgHash, privateKey, extraEntropy) ==
  \/ normalizePrivateKey_throws(privateKey)
  \/ bits2int_throws(msgHash)
  \/ (extraEntropy.given /\ Len(extraEntropy.bytes) # FieldBytes)

initSigArgs(msgHash, privateKey, extraEntropy) ==
  LET d == privateKey
      seedArgs == int2octets(d) \o bits2octets(msgHash)
      seed == IF extraEntropy.given THEN seedArgs \o extraEntropy.bytes
              ELSE seedArgs
  IN [seed |-> seed, m |-> bits2int(msgHash), d |-> d]

\* A kmdToSig that does not look at s before it builds the signature
kmdToSig_q_AnyS(k, m, d, q) ==
  LET r == mod(q.x, CURVE_n)
      s == mod(invert(k, CURVE_n) * mod(m + d * r, CURVE_n), CURVE_n)
  IN IF r = 0
       THEN [defined |-> FALSE, sig |-> Signature(0, 0), recovery |-> 0]
       ELSE [defined |-> TRUE, sig |-> Signature(r, s),
             recovery |-> (IF q.x = r THEN 0 ELSE 2) + (q.y % 2)]

\* kmdToSig(kBytes, m, d) from `const r` on: q = Point.BASE.multiply(k)
kmdToSig_q(k, m, d, q) ==
  LET n == CURVE_n
      r == mod(q.x, n)
      s == mod(invert(k, n) * mod(m + d * r, n), n)
      recovery == (IF q.x = r THEN 0 ELSE 2) + (q.y % 2)
      undefined == [defined |-> FALSE, sig |-> Signature(0, 0), recovery |-> 0]
  IN IF r = 0 THEN undefined
     ELSE IF s = 0 THEN undefined
     ELSE [defined |-> TRUE, sig |-> Signature(r, s), recovery |-> recovery]

\* kmdToSig(kBytes, m, d): [defined, sig, recovery]; defined = FALSE is the
\* source's `return` of undefined
kmdToSig(kBytes, m, d, cache, ws) ==
  LET k == bytesToNumber(kBytes)
      undefined == [defined |-> FALSE, sig |-> Signature(0, 0), recovery |-> 0]
  IN IF ~isWithinCurveOrder(k) THEN undefined
     ELSE kmdToSig_q(k, m, d, Point_multiply(Point_BASE, "BASE", k, cache, ws))

\* pointPrecomputes after kmdToSig
kmdToSig_cache(kBytes, cache, ws) ==
  IF isWithinCurveOrder(bytesToNumber(kBytes))
    THEN multiply_cache(JacobianPoint_BASE, "BASE", cache, ws)
    ELSE cache

\* A finalizeSig that leaves the recovery value alone when it replaces s
xor1_Keep(recovery) == recovery

\* recovery ^= 1
xor1(recovery) == IF recovery % 2 = 0 THEN recovery + 1 ELSE recovery - 1

\* The value of a sign output that carries no recovery value
NoRecovery == 0 - 1

\* What a sign call that has not returned has as its output
NoOutput == [hashed |-> <<>>, recovery |-> NoRecovery]

\* finalizeSig(recSig, opts): [hashed, recovery]
finalizeSig(recSig, opts) ==
  LET flip == opts.canonical /\ hasHighS(recSig.sig)
      sig == IF flip THEN normalizeS(recSig.sig) ELSE recSig.sig
      recovery == IF flip THEN xor1(recSig.recovery) ELSE recSig.recovery
      hashed == IF opts.der THEN toDERRawBytes(sig) ELSE toCompactRawBytes(sig)
  IN [hashed |-> hashed,
      recovery |-> IF opts.recovered THEN recovery ELSE NoRecovery]

\* ------------------------------------------------------------------------
\* sign, one awaited HMAC call at a time, and signSync.  A call is a record
\* [fn, msgHash, privKey, opts, entropyTrue, pc, entropy, drbg, output,
\* hmacLog, randomCalls]: its arguments (entropyTrue: extraEntropy was
\* `true`), where it is, the extraEntropy initSigArgs worked with, its
\* HmacDrbg, what it returned, the (key, message) pairs it gave to
\* utils.hmacSha256, and how often it called utils.randomBytes.
\* ------------------------------------------------------------------------

\* A sign that takes random extra entropy whatever it is given
drawsRandom_Always(entropyTrue) == TRUE

\* `if (extraEntropy === true) extraEntropy = utils.randomBytes(32)`
drawsRandom(entropyTrue) == entropyTrue

\* A HmacDrbg#hmacSync that goes on whatever is installed
hmacSync_throws_Fallback(installed) == FALSE

\* HmacDrbg#hmacSync raises unless utils.hmacSha256Sync is a function that
\* returns bytes
hmacSync_throws(installed) == installed # "function"

\* A module-level HmacDrbg: every call reads the registers of call "a"
ownCall_SharedDrbg(calls, id) == [calls[id] EXCEPT !.drbg = calls["a"].drbg]

\* The call a step belongs to: `const drbg = new HmacDrbg()` is local to it
ownCall(calls, id) == calls[id]

\* The call as it is made
newSignCall(fn, msgHash, privateKey, opts, entropyTrue) ==
  [fn |-> fn, msgHash |-> msgHash, privKey |-> privateKey, opts |-> opts,
   entropyTrue |-> entropyTrue, pc |-> "start", entropy |-> opts.extraEntropy,
   drbg |-> HmacDrbg_new, output |-> NoOutput, hmacLog |-> <<>>,
   randomCalls |-> 0]

\* sign up to its first await: initSigArgs, with `random` what
\* utils.randomBytes returns if it is called, and new HmacDrbg()
sign_start(call, random) ==
  LET drawn == /\ drawsRandom(call.entropyTrue)
               /\ ~normalizePrivateKey_throws(call.privKey)
               /\ ~bits2int_throws(call.msgHash)
      e == IF drawn THEN [given |-> TRUE, bytes |-> random]
           ELSE call.opts.extraEntropy
  IN [call EXCEPT
        !.entropy = e,
        !.randomCalls = IF drawn THEN 1 ELSE 0,
        !.pc = IF initSigArgs_throws(call.msgHash, call.privKey, e)
                 THEN "raised" ELSE "seed_k1"]

\* `this.k = await this.hmac(...)` and `this.v = await this.hmac(this.v)`
hmacK(fn, call, message, next) ==
  [call EXCEPT !.drbg.k = hmacSha256(fn, call.drbg.k, message),
               !.hmacLog = Append(@, <<call.drbg.k, message>>),
               !.pc = next]

hmacV(fn, call, next) ==
  [call EXCEPT !.drbg.v = hmacSha256(fn, call.drbg.k, call.drbg.v),
               !.hmacLog = Append(@, <<call.drbg.k, call.drbg.v>>),
               !.pc = next]

\* The loop of sign after `await drbg.generate()` gave the drbg g and
\* kmdToSig gave sig
sign_generated(call, g, sig) ==
  IF sig.defined
    THEN [call EXCEPT !.drbg = g,
                      !.hmacLog = Append(@, <<call.drbg.k, call.drbg.v>>),
                      !.pc = "returned",
                      !.output = finalizeSig(sig, call.opts)]
    ELSE [call EXCEPT !.drbg = g,
                      !.hmacLog = Append(@, <<call.drbg.k, call.drbg.v>>),
                      !.pc = "reseed_k"]

\* The seed of the call
sign_seed(call) == initSigArgs(call.msgHash, call.privKey, call.entropy).seed

\* One step of a sign call, from one await to the next
sign_step(fn, call, cache, ws) ==
  IF call.pc = "seed_k1"
    THEN hmacK(fn, call, call.drbg.v \o <<0>> \o sign_seed(call), "seed_v1")
  ELSE IF call.pc = "seed_v1"
    THEN hmacV(fn, call,
               IF Len(sign_seed(call)) = 0 THEN "generate" ELSE "seed_k2")
  ELSE IF call.pc = "seed_k2"
    THEN hmacK(fn, call, call.drbg.v \o <<1>> \o sign_seed(call), "seed_v2")
  ELSE IF call.pc = "seed_v2" THEN hmacV(fn, call, "generate")
  ELSE IF call.pc = "reseed_k"
    THEN hmacK(fn, call, call.drbg.v \o <<0>>, "reseed_v")
  ELSE IF call.pc = "reseed_v" THEN hmacV(fn, call, "generate")
  ELSE IF incr_throws(call.drbg) THEN [call EXCEPT !.pc = "raised"]
  ELSE sign_generated(
         call, generate(fn, call.drbg),
         kmdToSig(generate(fn, call.drbg).v,
                  initSigArgs(call.msgHash, call.privKey, call.entropy).m,
                  initSigArgs(call.msgHash, call.privKey, call.entropy).d,
                  cache, ws))

\* pointPrecomputes after the step
sign_step_cache(fn, call, cache, ws) ==
  IF call.pc = "generate" /\ ~incr_throws(call.drbg)
    THEN kmdToSig_cache(generate(fn, call.drbg).v, cache, ws)
    ELSE cache

\* The pc values of a call that has neither returned nor raised
SignStepPcs ==
  {"seed_k1", "seed_v1", "seed_k2", "seed_v2", "generate", "reseed_k",
   "reseed_v"}

\* A sign call run from where it is to its end with nothing in between
RECURSIVE sign_alone(_, _, _, _)
sign_alone(fn, call, cache, ws) ==
  IF call.pc \notin SignStepPcs THEN call
  ELSE sign_alone(fn, sign_step(fn, call, cache, ws),
                  sign_step_cache(fn, call, cache, ws), ws)

\* The loop of signSync, `while (!(sig = kmdToSig(drbg.generateSync(), m, d)))
\* drbg.reseedSync()`: [raised, sig, cache]
RECURSIVE signSync_loop(_, _, _, _, _, _)
signSync_turn(fn, g, sig, m, d, cache, ws) ==
  IF sig.defined THEN [raised |-> FALSE, sig |-> sig, cache |-> cache]
  ELSE signSync_loop(fn, reseed(fn, g, <<>>), m, d, cache, ws)

signSync_loop(fn, drbg, m, d, cache, ws) ==
  IF incr_throws(drbg)
    THEN [raised |-> TRUE, sig |-> [defined |-> FALSE], cache |-> cache]
    ELSE signSync_turn(fn, generate(fn, drbg),
                       kmdToSig(generate(fn, drbg).v, m, d, cache, ws), m, d,
                       kmdToSig_cache(generate(fn, drbg).v, cache, ws), ws)

\* signSync(msgHash, privKey, opts) with utils.hmacSha256Sync as installed:
\* [raised, output, cache]
signSync_end(loop, opts) ==
  [raised |-> loop.raised,
   output |-> IF loop.raised THEN NoOutput ELSE finalizeSig(loop.sig, opts),
   cache |-> loop.cache]

signSync(fn, installed, msgHash, privateKey, opts, cache, ws) ==
  IF \/ initSigArgs_throws(msgHash, privateKey, opts.extraEntropy)
     \/ hmacSync_throws(installed)
    THEN [raised |-> TRUE, output |-> NoOutput, cache |-> cache]
    ELSE signSync_end(
           signSync_loop(
             fn,
             reseed(fn, HmacDrbg_new,
                    initSigArgs(msgHash, privateKey, opts.extraEntropy).seed),
             initSigArgs(msgHash, privateKey, opts.extraEntropy).m,
             initSigArgs(msgHash, privateKey, opts.extraEntropy).d, cache, ws),
           opts)

\* ------------------------------------------------------------------------
\* ECDSA verification
\* ------------------------------------------------------------------------

\* A verify that takes u2 = r * s instead of r * s^-1
verify_u2_NoInverse(sig) == mod(sig.r * sig.s, CURVE_n)

\* The scalars and points verify computes once parsing has succeeded
verify_u1(sig, h) == mod(h * invert(sig.s, CURVE_n), CURVE_n)

verify_u2(sig) == mod(sig.r * invert(sig.s, CURVE_n), CURVE_n)

\* Ghs1.add(Prs1): the Jacobian point R = u1*G + u2*P
verify_R(sig, h, pubKey, cache, ws) ==
  JacobianPoint_add(
    multiply(JacobianPoint_BASE, verify_u1(sig, h), NoPoint, cache, ws),
    multiplyUnsafe(fromAffine(pubKey), verify_u2(sig)))

\* Whether verify gets as far as computing R
verify_reachesR(signature, msgHash, publicKey, strict, ws) ==
  /\ ~normalizeSignature_throws(signature)
  /\ ~(strict /\ hasHighS(normalizeSignature(signature)))
  /\ ~truncateHash_throws(msgHash)
  /\ truncateHash(msgHash) # 0
  /\ ~normalizePublicKey_throws(publicKey)
  /\ ~invert_throws(normalizeSignature(signature).s, CURVE_n)
  /\ ~multiply_throws(JacobianPoint_BASE,
                      verify_u1(normalizeSignature(signature),
                                truncateHash(msgHash)), NoPoint, ws)
  /\ ~multiplyUnsafe_throws(fromAffine(normalizePublicKey(publicKey)),
                            verify_u2(normalizeSignature(signature)))

\* The end of verify: `const R = Ghs1.add(Prs1).toAffine(); const v =
\* mod(R.x, n); return v === r`, given the Jacobian point Ghs1.add(Prs1)
verify_v(sig, Rj) ==
  IF toAffine_throws(Rj) THEN "raised"
  ELSE IF mod(toAffine(Rj).x, CURVE_n) = sig.r THEN "true" ELSE "false"

\* verify(signature, msgHash, publicKey, {strict}): "true", "false", or
\* "raised" when an exception leaves the function
verify(signature, msgHash, publicKey, strict, cache, ws) ==
  IF normalizeSignature_throws(signature) THEN "false"
  ELSE LET sig == normalizeSignature(signature)
       IN IF strict /\ hasHighS(sig) THEN "false"
          ELSE IF truncateHash_throws(msgHash) THEN "raised"
          ELSE LET h == truncateHash(msgHash)
               IN IF h = 0 THEN "false"
                  ELSE IF normalizePublicKey_throws(publicKey) THEN "false"
                  ELSE IF ~verify_reachesR(signature, msgHash, publicKey,
                                           strict, ws) THEN "raised"
                  ELSE verify_v(sig, verify_R(sig, h,
                                              normalizePublicKey(publicKey),
                                              cache, ws))

\* pointPrecomputes after verify: BASE.multiply(u1) fills the base table
verify_cache(signature, msgHash, publicKey, strict, cache, ws) ==
  IF verify_reachesR(signature, msgHash, publicKey, strict, ws)
    THEN multiply_cache(JacobianPoint_BASE, NoPoint, cache, ws)
    ELSE cache

\* ------------------------------------------------------------------------
\* Public key recovery
\* ------------------------------------------------------------------------

\* A fromSignature that takes the candidate point of the other parity
fromSignature_prefixed_OtherParity(sig, recovery) ==
  <<2 + ((recovery + 1) % 2)>> \o numTo32b(sig.r)

\* The candidate point P_ = Point.fromHex('0' + prefix + r) of fromSignature
fromSignature_prefixed(sig, recovery) == <<2 + (recovery % 2)>> \o numTo32b(sig.r)

\* sP.subtract(hG).multiplyUnsafe(rinv): the Jacobian point Q
fromSignature_Q(sig, h, recovery, cache, ws) ==
  LET P_ == Point_fromHex(fromSignature_prefixed(sig, recovery))
      sP == multiplyUnsafe(fromAffine(P_), sig.s)
      hG == multiply(JacobianPoint_BASE, h, NoPoint, cache, ws)
      rinv == invert(sig.r, CURVE_n)
      diff == JacobianPoint_subtract(sP, hG)
  IN multiplyUnsafe(diff, rinv)

\* The end of fromSignature: `const point = Q.toAffine();
\* point.assertValidity(); return point`, as [raised, point]
fromSignature_point(Q) ==
  IF toAffine_throws(Q) THEN [raised |-> TRUE, point |-> Point_ZERO]
  ELSE IF assertValidity_throws(toAffine(Q))
    THEN [raised |-> TRUE, point |-> Point_ZERO]
    ELSE [raised |-> FALSE, point |-> toAffine(Q)]

\* Point.fromSignature(msgHash, signature, recovery): [raised, point]
fromSignature(msgHash, signature, recovery, cache, ws) ==
  IF \/ truncateHash_throws(msgHash)
     \/ normalizeSignature_throws(signature)
     \/ (recovery # 0 /\ recovery # 1)
     \/ truncateHash(msgHash) = 0
     \/ Point_fromHex_throws(
          fromSignature_prefixed(normalizeSignature(signature), recovery))
     \/ multiply_throws(JacobianPoint_BASE, truncateHash(msgHash), NoPoint, ws)
    THEN [raised |-> TRUE, point |-> Point_ZERO]
    ELSE fromSignature_point(
           fromSignature_Q(normalizeSignature(signature),
                           truncateHash(msgHash), recovery, cache, ws))

\* recoverPublicKey(msgHash, signature, recovery): [raised, value]; the
\* function has no try/catch, so what fromSignature throws leaves it
recoverPublicKey(msgHash, signature, recovery, cache, ws) ==
  LET toHex(from) ==
        IF from.raised THEN [raised |-> TRUE, value |-> <<>>]
        ELSE [raised |-> FALSE, value |-> Point_toRawBytes(from.point, FALSE)]
  IN toHex(fromSignature(msgHash, signature, recovery, cache, ws))

\* pointPrecomputes after recoverPublicKey
recoverPublicKey_cache(msgHash, signature, recovery, cache, ws) ==
  IF \/ truncateHash_throws(msgHash)
     \/ normalizeSignature_throws(signature)
     \/ (recovery # 0 /\ recovery # 1)
     \/ truncateHash(msgHash) = 0
     \/ Point_fromHex_throws(
          fromSignature_prefixed(normalizeSignature(signature), recovery))
    THEN cache
    ELSE multiply_cache(JacobianPoint_BASE, NoPoint, cache, ws)

\* ------------------------------------------------------------------------
\* Schnorr signatures (BIP-340)
\* ------------------------------------------------------------------------

\* Point#negate, Point#equals, Point#add, Point#subtract
Point_negate(p) == Point(p.x, mod(0 - p.y, CURVE_P))

Point_equals(p, other) == p.x = other.x /\ p.y = other.y

Point_add_throws(p, other) ==
  toAffine_throws(JacobianPoint_add(fromAffine(p), fromAffine(other)))

Point_add(p, other) ==
  toAffine(JacobianPoint_add(fromAffine(p), fromAffine(other)))

Point_subtract_throws(p, other) == Point_add_throws(p, Point_negate(other))

Point_subtract(p, other) == Point_add(p, Point_negate(other))

\* a ^ b on non-negative integers
RECURSIVE xor(_, _)
xor(a, b) ==
  IF a = 0 THEN b
  ELSE IF b = 0 THEN a
  ELSE 2 * xor(a \div 2, b \div 2) + ((a + b) % 2)

\* The character codes of the tags
TAG_AUX == <<66, 73, 80, 48, 51, 52, 48, 47, 97, 117, 120>>

TAG_NONCE == <<66, 73, 80, 48, 51, 52, 48, 47, 110, 111, 110, 99, 101>>

TAG_CHALLENGE ==
  <<66, 73, 80, 48, 51, 52, 48, 47, 99, 104, 97, 108, 108, 101, 110, 103, 101>>

\* taggedHash(tag, ...messages), messages concatenated
taggedHash(fn, tag, messages) ==
  LET tagH == sha256(fn, tag)
  IN bytesToNumber(sha256(fn, tagH \o tagH \o messages))

\* createChallenge(x, P, message)
createChallenge(fn, x, P, message) ==
  mod(taggedHash(fn, TAG_CHALLENGE, numTo32b(x) \o Point_toRawX(P) \o message),
      CURVE_n)

hasEvenY(point) == mod(point.y, 2) = 0

\* new SchnorrSignature(r, s)
SchnorrSignature_throws(r, s) ==
  ~isValidFieldElement(r) \/ ~isWithinCurveOrder(s)

\* SchnorrSignature.fromHex(hex)
SchnorrSignature_fromHex_throws(bytes) ==
  \/ Len(bytes) # 2 * FieldBytes
  \/ SchnorrSignature_throws(
       bytesToNumber(subarray(bytes, 0, FieldBytes)),
       bytesToNumber(subarray(bytes, FieldBytes, 2 * FieldBytes)))

SchnorrSignature_fromHex(bytes) ==
  [r |-> bytesToNumber(subarray(bytes, 0, FieldBytes)),
   s |-> bytesToNumber(subarray(bytes, FieldBytes, 2 * FieldBytes))]

\* SchnorrSignature#toRawBytes
SchnorrSignature_toRawBytes(sig) == numTo32b(sig.r) \o numTo32b(sig.s)

\* schnorrGetPublicKey(privateKey)
schnorrGetPublicKey(privateKey, cache, ws) ==
  Point_toRawX(fromPrivateKey(privateKey, cache, ws))

\* schnorrVerify from `const R = sG.subtract(eP)` on
schnorrVerify_R(sig, sG, eP) ==
  IF Point_subtract_throws(sG, eP) THEN "raised"
  ELSE LET R == Point_subtract(sG, eP)
       IN IF Point_equals(R, Point_BASE) \/ ~hasEvenY(R) \/ R.x # sig.r
            THEN "false" ELSE "true"

\* schnorrVerify(signature, message, publicKey): "true", "false", or
\* "raised".  P is a Point that fromHex has just made, which has no window
\* size and no stored table.
schnorrVerify(fn, signature, message, publicKey, cache, ws) ==
  IF \/ SchnorrSignature_fromHex_throws(signature)
     \/ normalizePublicKey_throws(publicKey)
    THEN "raised"
  ELSE LET sig == SchnorrSignature_fromHex(signature)
           P == normalizePublicKey(publicKey)
           e == createChallenge(fn, sig.r, P, message)
       IN IF \/ fromPrivateKey_throws(sig.s)
             \/ Point_multiply_throws(P, NewPoint, e, ws)
            THEN "raised"
            ELSE schnorrVerify_R(sig, fromPrivateKey(sig.s, cache, ws),
                                 Point_multiply(P, NewPoint, e, cache, ws))

\* schnorrVerify gets as far as `const R = sG.subtract(eP)`
schnorrVerify_reachesR(fn, signature, message, publicKey, ws) ==
  /\ ~SchnorrSignature_fromHex_throws(signature)
  /\ ~normalizePublicKey_throws(publicKey)
  /\ ~fromPrivateKey_throws(SchnorrSignature_fromHex(signature).s)
  /\ ~Point_multiply_throws(
        normalizePublicKey(publicKey), NewPoint,
        createChallenge(fn, SchnorrSignature_fromHex(signature).r,
                        normalizePublicKey(publicKey), message), ws)

\* The sum s*G + (-(e*P)) inside sG.subtract(eP), before its toAffine()
schnorrVerify_Rj(fn, signature, message, publicKey, cache, ws) ==
  LET sig == SchnorrSignature_fromHex(signature)
      P == normalizePublicKey(publicKey)
      e == createChallenge(fn, sig.r, P, message)
  IN JacobianPoint_add(
       fromAffine(fromPrivateKey(sig.s, cache, ws)),
       fromAffine(Point_negate(Point_multiply(P, NewPoint, e, cache, ws))))

\* pointPrecomputes after schnorrVerify: Point.fromPrivateKey(sig.s) is the
\* one multiplication of a point that has a window size
schnorrVerify_cache(signature, publicKey, cache, ws) ==
  IF \/ SchnorrSignature_fromHex_throws(signature)
     \/ normalizePublicKey_throws(publicKey)
    THEN cache
    ELSE fromPrivateKey_cache(SchnorrSignature_fromHex(signature).s, cache, ws)

\* A schnorrSign that returns what it made whatever schnorrVerify said
schnorrSign_return_Unchecked(sigBytes, isValid) ==
  [result |-> "returned", isValid |-> isValid, value |-> sigBytes]

\* The end of schnorrSign: `if (!isValid) throw ...; return sig.toRawBytes()`,
\* as [result, isValid, value]; a schnorrVerify that raised leaves schnorrSign
schnorrSign_return(sigBytes, isValid) ==
  IF isValid = "true"
    THEN [result |-> "returned", isValid |-> isValid, value |-> sigBytes]
    ELSE [result |-> "raised", isValid |-> isValid, value |-> <<>>]

\* schnorrSign from `const k` on: R = Point.fromPrivateKey(k0)
schnorrSign_R(fn, m, P, d, k0, R, cache, ws) ==
  LET n == CURVE_n
      k == IF hasEvenY(R) THEN k0 ELSE n - k0
      e == createChallenge(fn, R.x, P, m)
      s == mod(k + e * d, n)
      sigBytes == SchnorrSignature_toRawBytes([r |-> R.x, s |-> s])
  IN IF SchnorrSignature_throws(R.x, s)
       THEN [result |-> "raised", isValid |-> "none", value |-> <<>>]
       ELSE schnorrSign_return(
              sigBytes,
              schnorrVerify(fn, sigBytes, m, Point_toRawX(P), cache, ws))

\* schnorrSign from `const d` on: P = Point.fromPrivateKey(d0)
schnorrSign_P(fn, m, d0, rand, P, cache, ws) ==
  LET n == CURVE_n
      d == IF hasEvenY(P) THEN d0 ELSE n - d0
      t0h == taggedHash(fn, TAG_AUX, rand)
      t == xor(d, t0h)
      k0h == taggedHash(fn, TAG_NONCE, numTo32b(t) \o Point_toRawX(P) \o m)
      k0 == mod(k0h, n)
  IN IF k0 = 0
       THEN [result |-> "raised", isValid |-> "none", value |-> <<>>]
       ELSE schnorrSign_R(fn, m, P, d, k0, fromPrivateKey(k0, cache, ws),
                          cache, ws)

\* schnorrSign(message, privateKey, auxRand): [result, isValid, value], where
\* isValid is what its schnorrVerify call gave, "none" when it raised before
\* that call
schnorrSign(fn, m, d0, rand, cache, ws) ==
  IF normalizePrivateKey_throws(d0) \/ Len(rand) # FieldBytes
    THEN [result |-> "raised", isValid |-> "none", value |-> <<>>]
    ELSE schnorrSign_P(fn, m, d0, rand, fromPrivateKey(d0, cache, ws),
                       cache, ws)

\* pointPrecomputes after schnorrSign
schnorrSign_cache(d0, rand, cache, ws) ==
  IF normalizePrivateKey_throws(d0) \/ Len(rand) # FieldBytes THEN cache
  ELSE fromPrivateKey_cache(d0, cache, ws)

\* ------------------------------------------------------------------------
\* Bounds of the model
\* ------------------------------------------------------------------------

\* Private keys tried: 1, 1 + stride, 1 + 2 * stride, ... (and the invalid
\* keys 0 and n)
NumPrivKeys == 4

PrivKeyStride == 41

\* One-byte message hashes tried: the multiples of the stride (and 0, n, 255)
NumHashes == 4

HashStride == 37

\* Injected HMAC / SHA-256 functions tried: 0 .. MaxHashFn
MaxHashFn == 1

PrivKeys ==
  {d \in 0..CURVE_n : d \in {0, CURVE_n} \/
                      \E i \in 0..(NumPrivKeys - 1) : d = 1 + i * PrivKeyStride}

HashBytes ==
  {h \in 0..255 : h \in {0, CURVE_n, 255} \/
                  \E i \in 1..NumHashes : h = (i * HashStride) % 256}

\* Message hashes: empty, one block, and longer than one block
Hashes ==
  {<<>>} \cup {<<h>> : h \in HashBytes} \cup {<<h, 255>> : h \in {77, CURVE_n}}

EntropyChoices ==
  {NoEntropy, [given |-> TRUE, bytes |-> <<90>>], [given |-> TRUE, bytes |-> <<>>]}

SignOpts ==
  [canonical : BOOLEAN, der : BOOLEAN, recovered : BOOLEAN,
   extraEntropy : EntropyChoices]

\* ------------------------------------------------------------------------
\* State
\* ------------------------------------------------------------------------

VARIABLES
  hmacFn,            \* utils.hmacSha256 / utils.sha256: the injected function
  pointPrecomputes,  \* the WeakMap pointPrecomputes: id -> table or NoTable
  WINDOW_SIZE,       \* _WINDOW_SIZE of each Point object (0: undefined)
  msgHash,           \* sign(msgHash, privKey, opts): the arguments
  privKey,
  opts,
  pc,                \* where the sign call is
  drbg,              \* its HmacDrbg
  recSig,            \* its local `sig`: what kmdToSig returned
  signOutput,        \* what sign returned: [hashed, recovery]
  verifyCall,        \* the last verify call: arguments and result
  recoverCall,       \* the last recoverPublicKey call: arguments and result
  codecCall,         \* the last signature codec call: input and results
  schnorrCall,       \* the last schnorr.sign call, and the verify after it
  hmacSha256Sync,    \* utils.hmacSha256Sync: what is installed
  signCalls,         \* sign / signSync calls in flight, one record per call
  mathCall           \* the last call of an arithmetic function, and its result

vars ==
  <<hmacFn, pointPrecomputes, WINDOW_SIZE, msgHash, privKey, opts, pc, drbg,
    recSig, signOutput, verifyCall, recoverCall, codecCall, schnorrCall,
    hmacSha256Sync, signCalls, mathCall>>

NoRecSig == [defined |-> FALSE, sig |-> Signature(0, 0), recovery |-> 0]

NoVerify ==
  [signature |-> <<>>, msgHash |-> <<>>, publicKey |-> <<>>, strict |-> TRUE,
   result |-> "none"]

NoRecover ==
  [msgHash |-> <<>>, signature |-> <<>>, recovery |-> 0, result |-> "none",
   value |-> <<>>]

\* Module load: the cache is empty and Point.BASE._setWindowSize(8) has run
InitModule ==
  /\ pointPrecomputes = [id \in PointIds |-> NoTable]
  /\ WINDOW_SIZE =
       [id \in PointIds |-> IF id = "BASE" THEN BASE_WINDOW_SIZE ELSE 0]

\* No codec call and no schnorr.sign call has been made
NoCodec == [op |-> "none"]

NoSchnorr == [result |-> "none"]

\* The ids of the sign / signSync calls followed
CallIds == {"a", "b"}

\* No sign call followed, and no call of an arithmetic function made
NoSignCalls == [id \in CallIds |-> [fn |-> "none"]]

NoMath == [op |-> "none"]

\* utils.hmacSha256Sync is undefined until the user installs a function
InitUtils ==
  /\ hmacSha256Sync = "undefined"
  /\ signCalls = NoSignCalls
  /\ mathCall = NoMath

InitCalls ==
  /\ verifyCall = NoVerify
  /\ recoverCall = NoRecover
  /\ codecCall = NoCodec
  /\ schnorrCall = NoSchnorr
  /\ InitUtils

\* ------------------------------------------------------------------------
\* Spec: one sign call, then verify / recoverPublicKey on what it returned
\* ------------------------------------------------------------------------

Init ==
  /\ InitModule
  /\ InitCalls
  /\ hmacFn \in 0..MaxHashFn
  /\ msgHash \in Hashes
  /\ privKey \in PrivKeys
  /\ opts \in SignOpts
  /\ pc = "start"
  /\ drbg = HmacDrbg_new
  /\ recSig = NoRecSig
  /\ signOutput = NoOutput

\* sign / signSync up to the loop: initSigArgs, new HmacDrbg, reseed(seed)
SignStart ==
  /\ pc = "start"
  /\ IF initSigArgs_throws(msgHash, privKey, opts.extraEntropy)
       THEN pc' = "raised" /\ drbg' = drbg
       ELSE /\ pc' = "generate"
            /\ drbg' = reseed(hmacFn, HmacDrbg_new,
                              initSigArgs(msgHash, privKey, opts.extraEntropy).seed)
  /\ UNCHANGED <<codecCall, schnorrCall>>
  /\ UNCHANGED <<hmacFn, pointPrecomputes, WINDOW_SIZE, msgHash, privKey, opts,
                 recSig, signOutput, verifyCall, recoverCall>>
  /\ UNCHANGED <<hmacSha256Sync, signCalls, mathCall>>

\* One turn of `while (!(sig = kmdToSig(await drbg.generate(), m, d)))
\* await drbg.reseed()`, and `return finalizeSig(sig, opts)` when it ends
SignGenerate ==
  /\ pc = "generate"
  /\ IF incr_throws(drbg)
       THEN /\ pc' = "raised"
            /\ UNCHANGED <<drbg, recSig, signOutput, pointPrecomputes>>
       ELSE LET args == initSigArgs(msgHash, privKey, opts.extraEntropy)
                g == generate(hmacFn, drbg)
                loopTurn(sig) ==
                  IF sig.defined
                    THEN /\ pc' = "returned"
                         /\ drbg' = g
                         /\ recSig' = sig
                         /\ signOutput' = finalizeSig(sig, opts)
                    ELSE /\ pc' = "generate"
                         /\ drbg' = reseed(hmacFn, g, <<>>)
                         /\ UNCHANGED <<recSig, signOutput>>
            IN /\ pointPrecomputes' =
                    kmdToSig_cache(g.v, pointPrecomputes, WINDOW_SIZE)
               /\ loopTurn(kmdToSig(g.v, args.m, args.d, pointPrecomputes,
                                   WINDOW_SIZE))
  /\ UNCHANGED <<codecCall, schnorrCall>>
  /\ UNCHANGED <<hmacFn, WINDOW_SIZE, msgHash, privKey, opts, verifyCall,
                 recoverCall>>
  /\ UNCHANGED <<hmacSha256Sync, signCalls, mathCall>>

\* The signature the caller holds: what sign returned, or its twin (r, n - s)
\* in the same encoding
heldSignature(twin) ==
  LET sig == normalizeSignature(signOutput.hashed)
      t == Signature(sig.r, CURVE_n - sig.s)
  IN IF ~twin THEN signOutput.hashed
     ELSE IF opts.der THEN toDERRawBytes(t) ELSE toCompactRawBytes(t)

\* A verify call, made when pointPrecomputes is `cache`
VerifyCall(sg, h, pub, strict, cache) ==
  /\ verifyCall' =
       [signature |-> sg, msgHash |-> h, publicKey |-> pub, strict |-> strict,
        result |-> verify(sg, h, pub, strict, cache, WINDOW_SIZE)]
  /\ pointPrecomputes' = verify_cache(sg, h, pub, strict, cache, WINDOW_SIZE)

\* A recoverPublicKey call
RecoverCall(h, sg, recovery) ==
  /\ LET returned(r) ==
           recoverCall' =
             [msgHash |-> h, signature |-> sg, recovery |-> recovery,
              result |-> IF r.raised THEN "raised" ELSE "returned",
              value |-> r.value]
     IN returned(recoverPublicKey(h, sg, recovery, pointPrecomputes,
                                  WINDOW_SIZE))
  /\ pointPrecomputes' =
       recoverPublicKey_cache(h, sg, recovery, pointPrecomputes, WINDOW_SIZE)

\* verify(sig, msgHash, getPublicKey(privKey, isCompressed), {strict}), once
VerifySigned ==
  /\ pc = "returned"
  /\ verifyCall = NoVerify
  /\ \E twin \in BOOLEAN, isCompressed \in BOOLEAN, strict \in BOOLEAN :
       VerifyCall(
         heldSignature(twin), msgHash,
         getPublicKey(privKey, isCompressed, pointPrecomputes, WINDOW_SIZE),
         strict, fromPrivateKey_cache(privKey, pointPrecomputes, WINDOW_SIZE))
  /\ UNCHANGED <<codecCall, schnorrCall>>
  /\ UNCHANGED <<hmacFn, WINDOW_SIZE, msgHash, privKey, opts, pc, drbg, recSig,
                 signOutput, recoverCall>>
  /\ UNCHANGED <<hmacSha256Sync, signCalls, mathCall>>

\* recoverPublicKey(msgHash, sig, recovery) with what sign(.., {recovered:
\* true}) returned
RecoverSigned ==
  /\ pc = "returned"
  /\ opts.recovered
  /\ recoverCall = NoRecover
  /\ RecoverCall(msgHash, signOutput.hashed, signOutput.recovery)
  /\ UNCHANGED <<codecCall, schnorrCall>>
  /\ UNCHANGED <<hmacFn, WINDOW_SIZE, msgHash, privKey, opts, pc, drbg, recSig,
                 signOutput, verifyCall>>
  /\ UNCHANGED <<hmacSha256Sync, signCalls, mathCall>>

Next == SignStart \/ SignGenerate \/ VerifySigned \/ RecoverSigned

Spec == Init /\ [][Next]_vars

\* ------------------------------------------------------------------------
\* SpecSignLoop: one sign call, run to its end, with an HMAC that may return
\* the same block for ever.  The loop of sign runs until it stops: each
\* awaited HMAC call resolves, so a step that is enabled is taken.
\* ------------------------------------------------------------------------

\* Constant HMAC functions tried: the blocks 0 .. MaxStuckBlock (and 255)
MaxStuckBlock == 1

StuckHmacFns == {0 - b - 1 : b \in (0..MaxStuckBlock) \cup {255}}

LoopHashes == {<<>>, <<0>>, <<74>>, <<77, 255>>}

LoopPrivKeys == {0, 1, 42, CURVE_n - 1}

InitSignLoop ==
  /\ InitModule
  /\ InitCalls
  /\ hmacFn \in StuckHmacFns \cup (0..MaxHashFn)
  /\ msgHash \in LoopHashes
  /\ privKey \in LoopPrivKeys
  /\ opts \in {o \in SignOpts : o.canonical /\ o.der}
  /\ pc = "start"
  /\ drbg = HmacDrbg_new
  /\ recSig = NoRecSig
  /\ signOutput = NoOutput

NextSignLoop == SignStart \/ SignGenerate

\* A step of the call is possible exactly while it has neither returned nor
\* raised
signLoopRunning == pc \in {"start", "generate"}

\* Weak fairness of the steps of the call, WF_vars(NextSignLoop), written out
\* with signLoopRunning for ENABLED <<NextSignLoop>>_vars
signLoopFairness ==
  []<>(~signLoopRunning) \/ []<><<NextSignLoop>>_vars

SpecSignLoop ==
  /\ InitSignLoop
  /\ [][NextSignLoop]_vars
  /\ signLoopFairness

\* ------------------------------------------------------------------------
\* SpecVerify: verify and recoverPublicKey called with inputs of the
\* caller's choosing, well-formed or not
\* ------------------------------------------------------------------------

\* Signature values tried: r in 0 .. MaxSigVal, s in 0 .. MaxSigVal and
\* n - MaxSigVal .. n
MaxSigVal == 4

\* One-byte hashes tried: 0 .. MaxVerifyHash (and n, and the empty hash)
MaxVerifyHash == 12

SigRs == 0..MaxSigVal

SigSs == (0..MaxSigVal) \cup ((CURVE_n - MaxSigVal)..CURVE_n)

\* The bytes of (r, s), valid or not, as DER or as compact
encodeSig(r, s, der) ==
  IF der THEN toDERRawBytes(Signature(r, s)) ELSE numTo32b(r) \o numTo32b(s)

\* Signatures handed in: encodings of (r, s), and byte strings that are
\* neither DER nor compact
SigInputs ==
  {encodeSig(r, s, der) : r \in SigRs, s \in SigSs, der \in BOOLEAN}
    \cup {<<>>, <<48>>, <<48, 6, 2, 1, 1, 2, 1>>}

VerifyHashes ==
  {<<>>, <<CURVE_n>>} \cup {<<h>> : h \in 0..MaxVerifyHash}

DefaultOpts ==
  [canonical |-> TRUE, der |-> TRUE, recovered |-> FALSE,
   extraEntropy |-> NoEntropy]

\* No sign call is in progress
InitNoSign ==
  /\ hmacFn = 0
  /\ msgHash = <<>>
  /\ privKey = 0
  /\ opts = DefaultOpts
  /\ pc = "idle"
  /\ drbg = HmacDrbg_new
  /\ recSig = NoRecSig
  /\ signOutput = NoOutput

\* Public keys handed in: G and -G, the keys of 1 and n - 1, uncompressed and
\* compressed, a point that is not on the curve, and a wrong length
PubKeyInputs ==
  {Point_toRawBytes(Point_BASE, FALSE),
   Point_toRawBytes(Point_negate(Point_BASE), FALSE),
   Point_toRawBytes(Point_negate(Point_BASE), TRUE), <<4, 1, 1>>, <<>>}

InitVerify == InitModule /\ InitCalls /\ InitNoSign

\* verify(signature, msgHash, publicKey, {strict}), once
VerifyAny ==
  /\ verifyCall = NoVerify
  /\ recoverCall = NoRecover
  /\ \E sg \in SigInputs, h \in VerifyHashes, pub \in PubKeyInputs,
        strict \in BOOLEAN :
       VerifyCall(sg, h, pub, strict, pointPrecomputes)
  /\ UNCHANGED <<codecCall, schnorrCall>>
  /\ UNCHANGED <<hmacFn, WINDOW_SIZE, msgHash, privKey, opts, pc, drbg, recSig,
                 signOutput, recoverCall>>
  /\ UNCHANGED <<hmacSha256Sync, signCalls, mathCall>>

\* recoverPublicKey(msgHash, signature, recovery), once
RecoverAny ==
  /\ verifyCall = NoVerify
  /\ recoverCall = NoRecover
  /\ \E sg \in SigInputs, h \in VerifyHashes, recovery \in 0..3 :
       RecoverCall(h, sg, recovery)
  /\ UNCHANGED <<codecCall, schnorrCall>>
  /\ UNCHANGED <<hmacFn, WINDOW_SIZE, msgHash, privKey, opts, pc, drbg, recSig,
                 signOutput, verifyCall>>
  /\ UNCHANGED <<hmacSha256Sync, signCalls, mathCall>>

NextVerify == VerifyAny \/ RecoverAny

SpecVerify == InitVerify /\ [][NextVerify]_vars

\* ------------------------------------------------------------------------
\* Properties of sign, verify and recoverPublicKey
\* ------------------------------------------------------------------------

\* n / 2, rounded down: the largest low s
HalfOrder == CURVE_n \div 2

\* The uncompressed public key of the private key of the run
ownPublicKey ==
  getPublicKey(privKey, FALSE, pointPrecomputes, WINDOW_SIZE)

\* verify(sign(h, d), h, getPublicKey(d)) was called, every option at its
\* default
DefaultRoundTrip ==
  /\ pc = "returned"
  /\ opts = DefaultOpts
  /\ verifyCall # NoVerify
  /\ verifyCall.signature = signOutput.hashed
  /\ verifyCall.msgHash = msgHash
  /\ verifyCall.publicKey = ownPublicKey
  /\ verifyCall.strict

\* C1, as stated: for every valid private key and every message hash,
\* verify(sign(h, d), h, getPublicKey(d)) with default options returns true.
C1_RoundTripEveryHash ==
  DefaultRoundTrip => verifyCall.result = "true"

\* C1, amended: verify(sign(h, d), h, getPublicKey(d)) with default options
\* returns true for every valid private key and every message hash that
\* truncateHash does not map to 0, and returns false for a hash that it maps
\* to 0 (the bytes of 0 and of n).
C1_RoundTripNonZeroHash ==
  DefaultRoundTrip =>
    /\ ~truncateHash_throws(msgHash)
    /\ truncateHash(msgHash) # 0 => verifyCall.result = "true"
    /\ truncateHash(msgHash) = 0 => verifyCall.result = "false"

\* A signature over a hash longer than the field, made with the default
\* options, has been verified
C1_Witness ==
  /\ DefaultRoundTrip
  /\ Len(msgHash) > FieldBytes
  /\ truncateHash(msgHash) # 0
  /\ verifyCall.result = "true"

\* C2, as stated: verify never raises; for every signature, message hash and
\* public key, malformed or out of range, it returns a boolean.
C2_VerifyNeverRaises ==
  verifyCall.result # "raised"

\* The point R of a verify call that got as far as computing it is the
\* identity
verifyCall_R_isIdentity ==
  /\ verifyCall # NoVerify
  /\ verify_reachesR(verifyCall.signature, verifyCall.msgHash,
                     verifyCall.publicKey, verifyCall.strict, WINDOW_SIZE)
  /\ JacobianPoint_equals(
       verify_R(normalizeSignature(verifyCall.signature),
                truncateHash(verifyCall.msgHash),
                normalizePublicKey(verifyCall.publicKey),
                pointPrecomputes, WINDOW_SIZE),
       JacobianPoint_ZERO)

\* C3, as stated: verify returns false whenever the point R = u1*G + u2*P
\* computed from the signature, hash and public key is the identity.
C3_IdentityRejected ==
  verifyCall_R_isIdentity => verifyCall.result = "false"

\* recover was called with what sign(h, d, {recovered: true}) returned
RecoverRoundTrip ==
  /\ pc = "returned"
  /\ opts.recovered
  /\ recoverCall # NoRecover

C5_RecoverNeverRaises ==
  recoverCall.result # "raised"

\* The signature (r, n - s) of the signature handed to verify, as bytes
twinOf(signature) ==
  LET sig == normalizeSignature(signature)
  IN encodeSig(sig.r, CURVE_n - sig.s, FALSE)

\* C6: a signature with s > n/2 is rejected by verify when strict is true;
\* with strict = false, (r, s) and (r, n - s) verify alike.
C6_HighS ==
  (verifyCall # NoVerify /\ ~normalizeSignature_throws(verifyCall.signature)) =>
    LET sig == normalizeSignature(verifyCall.signature)
    IN /\ (verifyCall.strict /\ sig.s > HalfOrder) => verifyCall.result = "false"
       /\ ~verifyCall.strict =>
            verifyCall.result =
              verify(twinOf(verifyCall.signature), verifyCall.msgHash,
                     verifyCall.publicKey, FALSE, pointPrecomputes, WINDOW_SIZE)

\* A signature with s > n/2 has been accepted with strict = false
C6_Witness ==
  /\ verifyCall # NoVerify
  /\ ~verifyCall.strict
  /\ ~normalizeSignature_throws(verifyCall.signature)
  /\ normalizeSignature(verifyCall.signature).s > HalfOrder
  /\ verifyCall.result = "true"

\* The signature sign returned, decoded
signedSig ==
  IF opts.der THEN fromDER(signOutput.hashed) ELSE fromCompact(signOutput.hashed)

\* C7: with canonical = true every signature sign returns has s <= n/2, and
\* the recovery value has its low bit flipped exactly when s was replaced by
\* n - s; with canonical = false, s and the recovery value are those computed
\* from the accepted nonce.
C7_Canonical ==
  pc = "returned" =>
    LET computed == kmdToSig(drbg.v, bits2int(msgHash), privKey,
                             pointPrecomputes, WINDOW_SIZE)
        replaced == opts.canonical /\ computed.sig.s > HalfOrder
        flipped == signOutput.recovery % 2 # computed.recovery % 2
    IN /\ computed.defined
       /\ signedSig.r = computed.sig.r
       /\ opts.canonical => signedSig.s <= HalfOrder
       /\ signedSig.s = IF replaced THEN CURVE_n - computed.sig.s
                        ELSE computed.sig.s
       /\ opts.recovered =>
            /\ flipped <=> replaced
            /\ signOutput.recovery \div 2 = computed.recovery \div 2
       /\ ~opts.recovered => signOutput.recovery = NoRecovery

\* sign has returned a signature whose s it replaced, with the flipped
\* recovery value
C7_Witness ==
  /\ pc = "returned"
  /\ opts.canonical
  /\ opts.recovered
  /\ recSig.sig.s > HalfOrder
  /\ signedSig.s = CURVE_n - recSig.sig.s
  /\ signOutput.recovery = xor1(recSig.recovery)

\* ------------------------------------------------------------------------
\* SpecDER: the signature codecs, on signatures and on byte strings built
\* field by field with defects put in
\* ------------------------------------------------------------------------

\* Declared lengths are off by -MaxLenDelta .. MaxLenDelta
MaxLenDelta == 1

LenDeltas == (0 - MaxLenDelta)..MaxLenDelta

\* Integer payloads: empty, minimal, padded although the next byte is below
\* 0x80, padded because it is not, and longer than a field element
RPayloads ==
  {<<>>, <<0>>, <<1>>, <<128>>, <<0, 1>>, <<0, 127>>, <<0, 128>>, <<1, 2>>,
   <<0, 0, 128>>}

SPayloads == {<<>>, <<1>>, <<0, 1>>, <<0, 128>>}

SeqTags == {48, 49}

IntTags == {2, 3}

Trailers == {<<>>, <<0>>}

\* What a DER input is built from
DERParts ==
  [seqTag : SeqTags, dlen : LenDeltas, rTag : IntTags, drlen : LenDeltas,
   r : RPayloads, sTag : IntTags, dslen : LenDeltas, s : SPayloads,
   trail : Trailers]

\* The bytes `seqTag len rTag rlen r sTag slen s trail`, each declared length
\* off by its delta
buildDER(m) ==
  LET body == <<m.rTag, (Len(m.r) + m.drlen) % 256>> \o m.r
                \o <<m.sTag, (Len(m.s) + m.dslen) % 256>> \o m.s \o m.trail
  IN <<m.seqTag, (Len(body) + m.dlen) % 256>> \o body

\* A padded integer: leading 0x00 followed by a byte below 0x80
isPadded(payload) ==
  Len(payload) >= 2 /\ payload[1] = 0 /\ payload[2] <= 127

InitDER == InitModule /\ InitCalls /\ InitNoSign

\* parseDERSignature(data) on a built input, once
ParseDER ==
  /\ codecCall = NoCodec
  /\ \E m \in DERParts :
       LET data == buildDER(m)
           raised == parseDERSignature_throws(data)
       IN codecCall' =
            [op |-> "parse", made |-> m, input |-> data,
             result |-> IF raised THEN "raised" ELSE "returned",
             r |-> IF raised THEN 0 ELSE parseDERSignature(data).r,
             s |-> IF raised THEN 0 ELSE parseDERSignature(data).s]
  /\ UNCHANGED <<hmacFn, pointPrecomputes, WINDOW_SIZE, msgHash, privKey, opts,
                 pc, drbg, recSig, signOutput, verifyCall, recoverCall,
                 schnorrCall>>
  /\ UNCHANGED <<hmacSha256Sync, signCalls, mathCall>>

\* What decoding `bytes` and encoding again gives: [raised, sig, again]
recode(bytes, der) ==
  LET raised == IF der THEN fromDER_throws(bytes) ELSE fromCompact_throws(bytes)
      sig == IF der THEN fromDER(bytes) ELSE fromCompact(bytes)
  IN [raised |-> raised,
      sig |-> IF raised THEN Signature(0, 0) ELSE sig,
      again |-> IF raised THEN <<>>
                ELSE IF der THEN toDERRawBytes(sig) ELSE toCompactRawBytes(sig)]

\* new Signature(r, s), toDERRawBytes and toCompactRawBytes, and
\* Signature.fromDER / fromCompact on each result, once
EncodeSig ==
  /\ codecCall = NoCodec
  /\ \E r \in 1..(CURVE_n - 1), s \in 1..(CURVE_n - 1) :
       LET sig == Signature(r, s)
       IN codecCall' =
            [op |-> "encode", r |-> r, s |-> s,
             der |-> toDERRawBytes(sig),
             fromDER |-> recode(toDERRawBytes(sig), TRUE),
             compact |-> toCompactRawBytes(sig),
             fromCompact |-> recode(toCompactRawBytes(sig), FALSE)]
  /\ UNCHANGED <<hmacFn, pointPrecomputes, WINDOW_SIZE, msgHash, privKey, opts,
                 pc, drbg, recSig, signOutput, verifyCall, recoverCall,
                 schnorrCall>>
  /\ UNCHANGED <<hmacSha256Sync, signCalls, mathCall>>

NextDER == ParseDER \/ EncodeSig

SpecDER == InitDER /\ [][NextDER]_vars

\* ------------------------------------------------------------------------
\* Properties of the signature codecs
\* ------------------------------------------------------------------------

\* The integer that starts at 0-based offset `at` of a DER signature: its
\* payload, by its declared length
derPayload(bytes, at) == subarray(bytes, at + 2, at + 2 + bytes[at + 2])

\* The payload of num in a DER integer as X.690 has it: the big-endian
\* magnitude, with 0x00 in front exactly when its top bit is set
hasTopBit(num) == numberToHex(num)[1] >= 128

\* C8: for every signature (r, s) with r, s in [1, n), parsing its DER
\* encoding returns (r, s) and encoding again gives the same bytes; each DER
\* integer has a leading 0x00 exactly when the top bit of its first payload
\* byte is set; and the compact encoding round-trips through fromCompact.
C8_CodecRoundTrip ==
  codecCall.op = "encode" =>
    LET sig == Signature(codecCall.r, codecCall.s)
        rBytes == derPayload(codecCall.der, 2)
        sBytes == derPayload(codecCall.der, 4 + Len(rBytes))
    IN /\ ~codecCall.fromDER.raised
       /\ codecCall.fromDER.sig = sig
       /\ codecCall.fromDER.again = codecCall.der
       /\ rBytes = (IF hasTopBit(sig.r) THEN <<0>> ELSE <<>>) \o numberToHex(sig.r)
       /\ sBytes = (IF hasTopBit(sig.s) THEN <<0>> ELSE <<>>) \o numberToHex(sig.s)
       /\ Len(codecCall.compact) = 2 * FieldBytes
       /\ ~codecCall.fromCompact.raised
       /\ codecCall.fromCompact.sig = sig
       /\ codecCall.fromCompact.again = codecCall.compact

\* A signature whose r has its top bit set and whose s has not went through
\* both codecs
C8_Witness ==
  /\ codecCall.op = "encode"
  /\ hasTopBit(codecCall.r)
  /\ ~hasTopBit(codecCall.s)
  /\ codecCall.der[5] = 0
  /\ codecCall.fromDER.again = codecCall.der
  /\ codecCall.fromCompact.sig = Signature(codecCall.r, codecCall.s)

\* The bytes are exactly `30 len 02 rlen r 02 slen s`: the sequence tag and
\* its length, r's tag, r not empty and within the input, s's tag, s not
\* empty and ending where the input ends, neither integer padded
isExactDER(b) ==
  /\ Len(b) >= 8
  /\ b[1] = 48
  /\ b[2] = Len(b) - 2
  /\ b[3] = 2
  /\ b[4] >= 1
  /\ Len(b) >= b[4] + 7
  /\ b[b[4] + 5] = 2
  /\ b[b[4] + 6] >= 1
  /\ Len(b) = b[4] + b[b[4] + 6] + 6
  /\ ~isPadded(SubSeq(b, 5, b[4] + 4))
  /\ ~isPadded(SubSeq(b, b[4] + 7, Len(b)))

\* C9: the DER parser rejects every input that has a wrong sequence or
\* integer tag, a declared length that differs from the actual length, a
\* padded integer (leading 0x00 followed by a byte below 0x80), or bytes left
\* over after s; it accepts exactly the byte strings `30 len 02 rlen r 02
\* slen s`, and returns that r and that s.
C9_ParserStrict ==
  codecCall.op = "parse" =>
    /\ codecCall.result = "returned" <=> isExactDER(codecCall.input)
    /\ codecCall.result = "returned" =>
         /\ codecCall.r = bytesToNumber(derPayload(codecCall.input, 2))
         /\ codecCall.s =
              bytesToNumber(derPayload(codecCall.input, codecCall.input[4] + 4))

\* The parser has returned the integers of `30 07 02 02 00 80 02 01 01`,
\* the first padded because its top bit is set
C9_Witness ==
  /\ codecCall.op = "parse"
  /\ codecCall.input = <<48, 7, 2, 2, 0, 128, 2, 1, 1>>
  /\ codecCall.result = "returned"
  /\ codecCall.r = 128
  /\ codecCall.s = 1

\* ------------------------------------------------------------------------
\* SpecSchnorr: one schnorr.sign call, then schnorr.verify on what it
\* returned
\* ------------------------------------------------------------------------

\* Private keys tried: 0 .. MaxSchnorrKey (and n - 1, n)
MaxSchnorrKey == 20

\* One-byte messages tried: 0 .. MaxSchnorrMsg (and empty, and two bytes)
MaxSchnorrMsg == 2

\* One-byte auxRand values tried: 0 .. MaxAuxRand (and the wrong length)
MaxAuxRand == 2

SchnorrKeys == (0..MaxSchnorrKey) \cup {CURVE_n - 1, CURVE_n}

SchnorrMsgs == {<<>>, <<7, 9>>} \cup {<<b>> : b \in 0..MaxSchnorrMsg}

AuxRands == {<<>>} \cup {<<b>> : b \in 0..MaxAuxRand}

InitSchnorr ==
  /\ InitModule
  /\ InitCalls
  /\ hmacFn \in 0..MaxHashFn
  /\ msgHash = <<>>
  /\ privKey = 0
  /\ opts = DefaultOpts
  /\ pc = "idle"
  /\ drbg = HmacDrbg_new
  /\ recSig = NoRecSig
  /\ signOutput = NoOutput

\* schnorr.sign(message, privateKey, auxRand), once
SchnorrSign ==
  /\ schnorrCall = NoSchnorr
  /\ \E m \in SchnorrMsgs, d0 \in SchnorrKeys, rand \in AuxRands :
       LET returned(out) ==
             schnorrCall' =
               [message |-> m, privateKey |-> d0, auxRand |-> rand,
                result |-> out.result, isValid |-> out.isValid,
                value |-> out.value, verified |-> "none"]
       IN /\ returned(schnorrSign(hmacFn, m, d0, rand, pointPrecomputes,
                                  WINDOW_SIZE))
          /\ pointPrecomputes' =
               schnorrSign_cache(d0, rand, pointPrecomputes, WINDOW_SIZE)
  /\ UNCHANGED <<hmacFn, WINDOW_SIZE, msgHash, privKey, opts, pc, drbg, recSig,
                 signOutput, verifyCall, recoverCall, codecCall>>
  /\ UNCHANGED <<hmacSha256Sync, signCalls, mathCall>>

\* schnorr.verify(sig, message, schnorr.getPublicKey(privateKey)) on the
\* signature schnorr.sign returned, once
SchnorrVerifySigned ==
  /\ schnorrCall.result = "returned"
  /\ schnorrCall.verified = "none"
  /\ schnorrCall' =
       [schnorrCall EXCEPT !.verified =
          schnorrVerify(hmacFn, schnorrCall.value, schnorrCall.message,
                        schnorrGetPublicKey(schnorrCall.privateKey,
                                            pointPrecomputes, WINDOW_SIZE),
                        pointPrecomputes, WINDOW_SIZE)]
  /\ UNCHANGED <<hmacFn, pointPrecomputes, WINDOW_SIZE, msgHash, privKey, opts,
                 pc, drbg, recSig, signOutput, verifyCall, recoverCall,
                 codecCall>>
  /\ UNCHANGED <<hmacSha256Sync, signCalls, mathCall>>

NextSchnorr == SchnorrSign \/ SchnorrVerifySigned

SpecSchnorr == InitSchnorr /\ [][NextSchnorr]_vars

\* ------------------------------------------------------------------------
\* Properties of schnorr.sign
\* ------------------------------------------------------------------------

\* schnorr.sign was called with a valid private key and an auxRand of the
\* right length
schnorrCall_validInputs ==
  /\ schnorrCall # NoSchnorr
  /\ isWithinCurveOrder(schnorrCall.privateKey)
  /\ Len(schnorrCall.auxRand) = FieldBytes

MaxSchnorrR == 10

\* s values tried: 0 .. MaxSchnorrS (and n - 1, n)
MaxSchnorrS == 40

\* Public keys tried: the x of d * G for d in 1 .. MaxSchnorrPub (and inputs
\* that are no x-only key)
MaxSchnorrPub == 3

SchnorrSigInputs ==
  {numTo32b(r) \o numTo32b(s) :
     r \in (0..MaxSchnorrR) \cup {CURVE_P - 1, CURVE_P},
     s \in (0..MaxSchnorrS) \cup {CURVE_n - 1, CURVE_n}}
  \cup {<<>>, <<1, 1, 1>>}

SchnorrPubInputs ==
  {Point_toRawX(multiplyUnsafe(JacobianPoint_BASE, d)) : d \in 1..MaxSchnorrPub}
  \cup {<<0>>, <<>>}

SchnorrVerifyMsgs == {<<>>, <<1>>}

NoSchnorrVerify ==
  [signature |-> <<>>, message |-> <<>>, publicKey |-> <<>>, result |-> "none"]

InitSchnorrVerify ==
  /\ InitModule
  /\ InitNoSign
  /\ verifyCall = NoVerify
  /\ recoverCall = NoRecover
  /\ codecCall = NoCodec
  /\ schnorrCall = NoSchnorrVerify
  /\ InitUtils

\* schnorr.verify(signature, message, publicKey), once
SchnorrVerifyAny ==
  /\ schnorrCall = NoSchnorrVerify
  /\ \E sg \in SchnorrSigInputs, m \in SchnorrVerifyMsgs,
        pub \in SchnorrPubInputs :
       /\ schnorrCall' =
            [signature |-> sg, message |-> m, publicKey |-> pub,
             result |-> schnorrVerify(hmacFn, sg, m, pub, pointPrecomputes,
                                      WINDOW_SIZE)]
       /\ pointPrecomputes' =
            schnorrVerify_cache(sg, pub, pointPrecomputes, WINDOW_SIZE)
  /\ UNCHANGED <<hmacFn, WINDOW_SIZE, msgHash, privKey, opts, pc, drbg, recSig,
                 signOutput, verifyCall, recoverCall, codecCall>>
  /\ UNCHANGED <<hmacSha256Sync, signCalls, mathCall>>

NextSchnorrVerify == SchnorrVerifyAny

SpecSchnorrVerify == InitSchnorrVerify /\ [][NextSchnorrVerify]_vars

\* ------------------------------------------------------------------------
\* Properties of schnorr.verify
\* ------------------------------------------------------------------------

\* The schnorr.verify call got as far as computing R
schnorrCall_reachesR ==
  /\ schnorrCall # NoSchnorrVerify
  /\ schnorrVerify_reachesR(hmacFn, schnorrCall.signature, schnorrCall.message,
                            schnorrCall.publicKey, WINDOW_SIZE)

\* R = s*G - e*P of the schnorr.verify call, in Jacobian coordinates
schnorrCall_Rj ==
  schnorrVerify_Rj(hmacFn, schnorrCall.signature, schnorrCall.message,
                   schnorrCall.publicKey, pointPrecomputes, WINDOW_SIZE)

schnorrCall_R_isIdentity ==
  JacobianPoint_equals(schnorrCall_Rj, JacobianPoint_ZERO)

\* C11, as stated: schnorr.verify returns false when R = s*G - e*P is the
\* identity, when R has odd y, or when R.x differs from the signature's r,
\* and returns true only when none of the three holds.
C11_RejectsIdentityOddYWrongX ==
  schnorrCall_reachesR =>
    /\ schnorrCall_R_isIdentity => schnorrCall.result = "false"
    /\ ~schnorrCall_R_isIdentity =>
         LET R == toAffine(schnorrCall_Rj)
             r == SchnorrSignature_fromHex(schnorrCall.signature).r
         IN /\ ~hasEvenY(R) \/ R.x # r => schnorrCall.result = "false"
            /\ schnorrCall.result = "true" => hasEvenY(R) /\ R.x = r
    /\ schnorrCall.result = "true" => ~schnorrCall_R_isIdentity

\* C12, as stated: schnorr.verify takes a 64-byte signature as in range
\* exactly when r is in [0, P) and s is in [0, n), 0 included for both, and
\* rejects a signature outside these ranges.
C12_RangeFromZero ==
  (schnorrCall # NoSchnorrVerify
     /\ Len(schnorrCall.signature) = 2 * FieldBytes) =>
    LET sig == SchnorrSignature_fromHex(schnorrCall.signature)
        inRange == /\ 0 <= sig.r /\ sig.r < CURVE_P
                   /\ 0 <= sig.s /\ sig.s < CURVE_n
    IN /\ inRange <=> ~SchnorrSignature_fromHex_throws(schnorrCall.signature)
       /\ ~inRange => schnorrCall.result # "true"

\* ------------------------------------------------------------------------
\* Properties of the signing loop
\* ------------------------------------------------------------------------

\* The candidate k the next generate() of the sign call returns, as a
\* signature or undefined
nextCandidate ==
  kmdToSig(generate(hmacFn, drbg).v,
           initSigArgs(msgHash, privKey, opts.extraEntropy).m,
           initSigArgs(msgHash, privKey, opts.extraEntropy).d,
           pointPrecomputes, WINDOW_SIZE)

\* One turn of the loop of sign: the counter grows by one and the call
\* returns what the candidate gives if it is valid and goes round again if
\* it is not, or the counter is at 1000 and the call raises
signLoopTurn ==
  pc = "generate" =>
    \/ /\ drbg.counter < DRBG_MAX_TRIES
       /\ drbg'.counter = drbg.counter + 1
       /\ nextCandidate.defined
       /\ pc' = "returned"
       /\ signOutput' = finalizeSig(nextCandidate, opts)
    \/ /\ drbg.counter < DRBG_MAX_TRIES
       /\ drbg'.counter = drbg.counter + 1
       /\ ~nextCandidate.defined
       /\ pc' = "generate"
       /\ signOutput' = NoOutput
    \/ /\ drbg.counter = DRBG_MAX_TRIES
       /\ pc' = "raised"
       /\ drbg' = drbg
       /\ signOutput' = NoOutput

\* C13: a signing call always terminates: the DRBG counter grows by one per
\* generate and never exceeds 1000, and the call either returns the
\* signature of the first valid candidate or raises once 1000 candidates
\* were all invalid, without examining a 1001st.
C13_SignTerminates ==
  /\ [](drbg.counter <= DRBG_MAX_TRIES)
  /\ [][signLoopTurn]_vars
  /\ <>(pc \in {"returned", "raised"})

\* A call whose 1000 candidates were all invalid has raised
C13_Witness ==
  /\ pc = "raised"
  /\ drbg.counter = DRBG_MAX_TRIES
  /\ ~initSigArgs_throws(msgHash, privKey, opts.extraEntropy)

\* ------------------------------------------------------------------------
\* SpecSigns: two sign calls, each taking its steps between its awaits in
\* any interleaving with the other's
\* ------------------------------------------------------------------------

\* Blocks utils.randomBytes may return: 90 .. 90 + MaxRandomBlock
MaxRandomBlock == 1

RandomBlocks == {<<90 + b>> : b \in 0..MaxRandomBlock}

CallHashes == {<<0>>, <<74>>}

CallPrivKeys == {0, 42}

\* extraEntropy absent, or bytes; `true` is the entropyTrue of the call
CallOpts ==
  [canonical : {TRUE}, der : {FALSE}, recovered : {TRUE},
   extraEntropy : {NoEntropy, [given |-> TRUE, bytes |-> <<90>>]}]

CallArgs(fn) ==
  {c \in {newSignCall(fn, h, d, o, t) :
            h \in CallHashes, d \in CallPrivKeys, o \in CallOpts,
            t \in BOOLEAN} :
     ~(c.entropyTrue /\ c.opts.extraEntropy.given)}

InitSignCalls(fn) ==
  /\ InitModule
  /\ msgHash = <<>>
  /\ privKey = 0
  /\ opts = DefaultOpts
  /\ pc = "idle"
  /\ drbg = HmacDrbg_new
  /\ recSig = NoRecSig
  /\ signOutput = NoOutput
  /\ verifyCall = NoVerify
  /\ recoverCall = NoRecover
  /\ codecCall = NoCodec
  /\ schnorrCall = NoSchnorr
  /\ mathCall = NoMath
  /\ hmacFn \in 0..MaxHashFn
  /\ signCalls \in [CallIds -> CallArgs(fn)]

InitSigns ==
  /\ InitSignCalls("sign")
  /\ hmacSha256Sync = "undefined"

\* sign(msgHash, privKey, opts) of call id, up to its first await
SignCallStart(id) ==
  /\ signCalls[id].fn = "sign"
  /\ signCalls[id].pc = "start"
  /\ \E random \in RandomBlocks :
       signCalls' =
         [signCalls EXCEPT ![id] = sign_start(ownCall(signCalls, id), random)]
  /\ UNCHANGED <<hmacFn, pointPrecomputes, WINDOW_SIZE, msgHash, privKey, opts,
                 pc, drbg, recSig, signOutput, verifyCall, recoverCall,
                 codecCall, schnorrCall, hmacSha256Sync, mathCall>>

\* Call id goes on from the await it is at to its next one, or to its end
SignCallStep(id) ==
  /\ signCalls[id].fn = "sign"
  /\ signCalls[id].pc \in SignStepPcs
  /\ signCalls' =
       [signCalls EXCEPT ![id] =
          sign_step(hmacFn, ownCall(signCalls, id), pointPrecomputes,
                    WINDOW_SIZE)]
  /\ pointPrecomputes' =
       sign_step_cache(hmacFn, ownCall(signCalls, id), pointPrecomputes,
                       WINDOW_SIZE)
  /\ UNCHANGED <<hmacFn, WINDOW_SIZE, msgHash, privKey, opts, pc, drbg, recSig,
                 signOutput, verifyCall, recoverCall, codecCall, schnorrCall,
                 hmacSha256Sync, mathCall>>

NextSigns == \E id \in CallIds : SignCallStart(id) \/ SignCallStep(id)

SpecSigns == InitSigns /\ [][NextSigns]_vars

\* ------------------------------------------------------------------------
\* SpecSignSync: signSync calls, one after the other, with
\* utils.hmacSha256Sync undefined, a function that returns a promise, or a
\* function that returns bytes
\* ------------------------------------------------------------------------

InitSignSync ==
  /\ InitSignCalls("signSync")
  /\ hmacSha256Sync \in {"undefined", "promise", "function"}

\* The record of a signSync call that got past initSigArgs, at its end
signSync_ended(call, r) ==
  [call EXCEPT !.pc = IF r.raised THEN "raised" ELSE "returned",
               !.output = r.output]

\* signSync(msgHash, privKey, opts) of call id, from call to return
SignSyncCall(id) ==
  /\ signCalls[id].fn = "signSync"
  /\ signCalls[id].pc = "start"
  /\ \E random \in RandomBlocks :
       LET ended(call, r) ==
             /\ signCalls' =
                  [signCalls EXCEPT ![id] =
                     IF call.pc = "raised" THEN call
                     ELSE signSync_ended(call, r)]
             /\ pointPrecomputes' = r.cache
           run(call) ==
             ended(call,
                   signSync(hmacFn, hmacSha256Sync, call.msgHash, call.privKey,
                            [call.opts EXCEPT !.extraEntropy = call.entropy],
                            pointPrecomputes, WINDOW_SIZE))
       IN run(sign_start(ownCall(signCalls, id), random))
  /\ UNCHANGED <<hmacFn, WINDOW_SIZE, msgHash, privKey, opts, pc, drbg, recSig,
                 signOutput, verifyCall, recoverCall, codecCall, schnorrCall,
                 hmacSha256Sync, mathCall>>

NextSignSync == \E id \in CallIds : SignSyncCall(id)

SpecSignSync == InitSignSync /\ [][NextSignSync]_vars

\* ------------------------------------------------------------------------
\* Properties of sign calls
\* ------------------------------------------------------------------------

\* The call has returned or raised
callEnded(call) == call.pc \in {"returned", "raised"}

\* The call was made without extraEntropy
withoutEntropy(call) == ~call.entropyTrue /\ ~call.opts.extraEntropy.given

\* The two calls were made with the same hash, private key and options
sameArguments ==
  /\ signCalls["a"].msgHash = signCalls["b"].msgHash
  /\ signCalls["a"].privKey = signCalls["b"].privKey
  /\ signCalls["a"].opts = signCalls["b"].opts
  /\ signCalls["a"].entropyTrue = signCalls["b"].entropyTrue

isPrefix(s, t) == Len(s) <= Len(t) /\ SubSeq(t, 1, Len(s)) = s

\* C14: without extraEntropy, two sign calls with the same hash, private key
\* and options, run against the same HMAC function, issue the same sequence
\* of HMAC calls and return identical output, and consult no random source.
C14_Deterministic ==
  (sameArguments /\ withoutEntropy(signCalls["a"])) =>
    /\ signCalls["a"].randomCalls = 0
    /\ signCalls["b"].randomCalls = 0
    /\ \/ isPrefix(signCalls["a"].hmacLog, signCalls["b"].hmacLog)
       \/ isPrefix(signCalls["b"].hmacLog, signCalls["a"].hmacLog)
    /\ (callEnded(signCalls["a"]) /\ callEnded(signCalls["b"])) =>
         /\ signCalls["a"].pc = signCalls["b"].pc
         /\ signCalls["a"].output = signCalls["b"].output
         /\ signCalls["a"].hmacLog = signCalls["b"].hmacLog

\* Two calls with the same arguments and no extraEntropy have both returned,
\* after more than one candidate k
C14_Witness ==
  /\ sameArguments
  /\ withoutEntropy(signCalls["a"])
  /\ signCalls["a"].pc = "returned"
  /\ signCalls["b"].pc = "returned"
  /\ signCalls["a"].drbg.counter > 1
  /\ signCalls["a"].output # NoOutput

\* pointPrecomputes as it is when the module has loaded
EmptyCache == [id \in PointIds |-> NoTable]

\* C15: signSync raises and returns no signature when utils.hmacSha256Sync is
\* not installed or returns a promise; it never falls back to the
\* asynchronous HMAC and leaves no partial result.
C15_SyncNeedsSyncHmac ==
  \A id \in CallIds :
    (signCalls[id].pc # "start" /\ hmacSha256Sync # "function") =>
      /\ signCalls[id].pc = "raised"
      /\ signCalls[id].output = NoOutput
      /\ signCalls[id].hmacLog = <<>>
      /\ signCalls[id].drbg = HmacDrbg_new
      /\ pointPrecomputes = EmptyCache

\* A signSync call with valid arguments has raised because
\* utils.hmacSha256Sync is undefined
C15_Witness ==
  /\ hmacSha256Sync = "undefined"
  /\ signCalls["a"].pc = "raised"
  /\ ~initSigArgs_throws(signCalls["a"].msgHash, signCalls["a"].privKey,
                         signCalls["a"].entropy)

\* The order of the DRBG operations of a call: reseed(seed) (four HMAC
\* calls), generate, then reseed() (two HMAC calls) and generate again
SignOrder ==
  {<<"start", "seed_k1">>, <<"start", "raised">>, <<"seed_k1", "seed_v1">>,
   <<"seed_v1", "seed_k2">>, <<"seed_k2", "seed_v2">>,
   <<"seed_v2", "generate">>, <<"generate", "returned">>,
   <<"generate", "raised">>, <<"generate", "reseed_k">>,
   <<"reseed_k", "reseed_v">>, <<"reseed_v", "generate">>}

\* A step is a step of one call: it moves that call to the next DRBG
\* operation and leaves the other call, its K, V and counter, as they are
oneCallSteps ==
  \E id \in CallIds :
    /\ <<signCalls[id].pc, signCalls'[id].pc>> \in SignOrder
    /\ \A other \in CallIds \ {id} : signCalls'[other] = signCalls[other]

\* The call as it was at its first await
atFirstAwait(call) ==
  [call EXCEPT !.pc = "seed_k1", !.drbg = HmacDrbg_new, !.hmacLog = <<>>,
               !.output = NoOutput]

\* The call has ended as it ends when it runs alone, from module load
endsAsAlone(call) ==
  IF initSigArgs_throws(call.msgHash, call.privKey, call.entropy)
    THEN call.pc = "raised" /\ call.hmacLog = <<>> /\ call.output = NoOutput
    ELSE call = sign_alone(hmacFn, atFirstAwait(call), EmptyCache, WINDOW_SIZE)

\* C20: within one signing call the DRBG operations run one after another in
\* the order reseed(seed), generate, then (reseed(), generate) until a
\* candidate is accepted; K, V and the counter of a call are changed only by
\* that call's own steps; so two sign calls interleaved at any HMAC
\* suspension point each return what they return when run alone.
C20_CallsDoNotInterfere ==
  /\ [][oneCallSteps]_vars
  /\ [](\A id \in CallIds :
          callEnded(signCalls[id]) => endsAsAlone(signCalls[id]))

\* Two calls with different arguments have both returned, call "b" after a
\* reseed, with a table for G in the cache
C20_Witness ==
  /\ signCalls["a"].pc = "returned"
  /\ signCalls["b"].pc = "returned"
  /\ signCalls["a"].msgHash # signCalls["b"].msgHash
  /\ signCalls["b"].drbg.counter > 1
  /\ signCalls["a"].output # signCalls["b"].output
  /\ pointPrecomputes # EmptyCache

\* ------------------------------------------------------------------------
\* SpecBatch: invertBatch called on lists of numbers, zeros among them
\* ------------------------------------------------------------------------

\* Lists tried: up to MaxBatchLen entries, each 0 .. MaxBatchVal (or m - 1,
\* or m, which has no inverse)
MaxBatchLen == 3

MaxBatchVal == 4

BatchVals(m) == (0..MaxBatchVal) \cup {m - 1, m}

RECURSIVE BatchLists(_, _)
BatchLists(m, len) ==
  IF len = 0 THEN {<<>>}
  ELSE LET shorter == BatchLists(m, len - 1)
       IN shorter \cup
          {Append(l, x) : l \in {k \in shorter : Len(k) = len - 1},
                          x \in BatchVals(m)}

InitBatch ==
  /\ InitModule
  /\ InitNoSign
  /\ InitCalls

\* invertBatch(nums, m), once
InvertBatchCall ==
  /\ mathCall = NoMath
  /\ \E m \in {CURVE_P, CURVE_n} :
       \E nums \in BatchLists(m, MaxBatchLen) :
         mathCall' =
           [op |-> "invertBatch", nums |-> nums, modulo |-> m,
            raised |-> invertBatch_throws(nums, m),
            result |-> IF invertBatch_throws(nums, m) THEN <<>>
                       ELSE invertBatch(nums, m)]
  /\ UNCHANGED <<hmacFn, pointPrecomputes, WINDOW_SIZE, msgHash, privKey, opts,
                 pc, drbg, recSig, signOutput, verifyCall, recoverCall,
                 codecCall, schnorrCall, hmacSha256Sync, signCalls>>

NextBatch == InvertBatchCall

SpecBatch == InitBatch /\ [][NextBatch]_vars

\* Every entry of the list is an element of the field of the modulus
batchOfFieldElements ==
  \A i \in 1..Len(mathCall.nums) :
    0 <= mathCall.nums[i] /\ mathCall.nums[i] < mathCall.modulo

\* C16: invertBatch(xs, m) returns a list of the length of xs that holds
\* invert(xs[i], m) at every position i where xs[i] is nonzero and 0 where
\* xs[i] is 0, for any mix of zero and nonzero entries, all zeros and the
\* empty list included.
C16_BatchInverts ==
  (mathCall.op = "invertBatch" /\ batchOfFieldElements) =>
    /\ ~mathCall.raised
    /\ Len(mathCall.result) = Len(mathCall.nums)
    /\ \A i \in 1..Len(mathCall.nums) :
         IF mathCall.nums[i] = 0 THEN mathCall.result[i] = 0
         ELSE /\ ~invert_throws(mathCall.nums[i], mathCall.modulo)
              /\ mathCall.result[i] = invert(mathCall.nums[i], mathCall.modulo)
              /\ mod(mathCall.result[i] * mathCall.nums[i], mathCall.modulo) = 1

\* A list with a zero between two nonzero entries has been inverted
C16_Witness ==
  /\ mathCall.op = "invertBatch"
  /\ ~mathCall.raised
  /\ Len(mathCall.nums) = 3
  /\ mathCall.nums[1] > 1
  /\ mathCall.nums[2] = 0
  /\ mathCall.nums[3] > 1
  /\ mathCall.result[3] = invert(mathCall.nums[3], mathCall.modulo)

\* ------------------------------------------------------------------------
\* SpecMultiply: Point#multiply and Point#add on scalars a, b of [1, n) near
\* both ends of the range and around n / 2, for Point.BASE (window size and
\* cache) and for fresh Point objects (no window size).
\* ------------------------------------------------------------------------

MaxMulScalar == 4

MaxMulPoint == 2

MulScalars ==
  (1..MaxMulScalar) \cup ((CURVE_n - MaxMulScalar)..(CURVE_n - 1))
    \cup {CURVE_n \div 2, CURVE_n \div 2 + 1}

\* Point.BASE itself, and fresh objects holding k*G (k = 1: the coordinates
\* of the base point in another object)
MulPoints ==
  {[id |-> "BASE", pt |-> Point_BASE]} \cup
  {[id |-> NewPoint, pt |-> toAffine(multiplyUnsafe(JacobianPoint_BASE, k))] :
     k \in 1..MaxMulPoint}

InitMultiply ==
  /\ InitModule
  /\ InitNoSign
  /\ InitCalls

\* P.multiply(scalar) as a result record
multiplyResult(P, scalar, cache, ws) ==
  IF Point_multiply_throws(P.pt, P.id, scalar, ws)
    THEN [raised |-> TRUE, point |-> Point_ZERO]
    ELSE [raised |-> FALSE,
          point |-> Point_multiply(P.pt, P.id, scalar, cache, ws)]

\* x.add(y) of two multiply results, as a result record
addResult(x, y) ==
  IF x.raised \/ y.raised \/ Point_add_throws(x.point, y.point)
    THEN [raised |-> TRUE, point |-> Point_ZERO]
    ELSE [raised |-> FALSE, point |-> Point_add(x.point, y.point)]

\* x.multiply(scalar) of the fresh Point object a multiply returned
multiplyAgain(x, scalar, cache, ws) ==
  IF x.raised THEN x
  ELSE multiplyResult([id |-> NewPoint, pt |-> x.point], scalar, cache, ws)

multiplyCallRecord(P, a, b, aP, bP, cache, ws) ==
  [op |-> "multiply", point |-> P, a |-> a, b |-> b, aP |-> aP, bP |-> bP,
   sum |-> multiplyResult(P, a + b, cache, ws),
   reduced |-> multiplyResult(P, (a + b) % CURVE_n, cache, ws),
   added |-> addResult(aP, bP),
   nested |-> multiplyAgain(bP, a, cache, ws),
   product |-> multiplyResult(P, (a * b) % CURVE_n, cache, ws)]

\* P.multiply(a), P.multiply(b), their Point#add, P.multiply(a + b),
\* P.multiply(b).multiply(a) and P.multiply(a * b mod n), in this order
MultiplyCall ==
  /\ mathCall = NoMath
  /\ \E P \in MulPoints : \E a \in MulScalars : \E b \in MulScalars :
       LET cache == multiply_cache(fromAffine(P.pt), P.id, pointPrecomputes,
                                   WINDOW_SIZE)
       IN /\ mathCall' =
               multiplyCallRecord(
                 P, a, b,
                 multiplyResult(P, a, pointPrecomputes, WINDOW_SIZE),
                 multiplyResult(P, b, cache, WINDOW_SIZE),
                 cache, WINDOW_SIZE)
          /\ pointPrecomputes' = cache
  /\ UNCHANGED <<hmacFn, WINDOW_SIZE, msgHash, privKey, opts, pc, drbg,
                 recSig, signOutput, verifyCall, recoverCall, codecCall,
                 schnorrCall, hmacSha256Sync, signCalls>>

NextMultiply == MultiplyCall

SpecMultiply == InitMultiply /\ [][NextMultiply]_vars

\* Both results are points, and the same point
samePoint(x, y) == ~x.raised /\ ~y.raised /\ Point_equals(x.point, y.point)

MaxWindow == 4

MaxCacheScalar == 3

WindowSizes == 0..MaxWindow

CacheScalars == (0..MaxCacheScalar) \cup {CURVE_n - 1}

\* The coordinates of the point Q holds
Point_Q == Point_add(Point_BASE, Point_BASE)

pointOf(id) == IF id = "BASE" THEN Point_BASE ELSE Point_Q

InitCache ==
  /\ InitModule
  /\ InitNoSign
  /\ InitCalls

\* What a Point#multiply did: result, and how many tables it built
cacheMultiplyRecord(id, scalar, cache, ws) ==
  LET this == fromAffine(pointOf(id))
  IN IF Point_multiply_throws(pointOf(id), id, scalar, ws)
       THEN [op |-> "multiply", id |-> id, scalar |-> scalar,
             raised |-> TRUE, point |-> Point_ZERO, builds |-> 0]
       ELSE [op |-> "multiply", id |-> id, scalar |-> scalar,
             raised |-> FALSE,
             point |-> Point_multiply(pointOf(id), id, scalar, cache, ws),
             builds |-> wNAF_builds(this, id, cache)
                        + wNAF_builds(this, id,
                                      multiply_cache(this, id, cache, ws))]

\* pointPrecomputes after Point#multiply: a raising call stores nothing
Point_multiply_cache(id, scalar, cache, ws) ==
  IF Point_multiply_throws(pointOf(id), id, scalar, ws) THEN cache
  ELSE multiply_cache(fromAffine(pointOf(id)), id, cache, ws)

\* pointOf(id).multiply(scalar)
CacheMultiply ==
  \E id \in PointIds : \E scalar \in CacheScalars :
    /\ mathCall' =
         cacheMultiplyRecord(id, scalar, pointPrecomputes, WINDOW_SIZE)
    /\ pointPrecomputes' =
         Point_multiply_cache(id, scalar, pointPrecomputes, WINDOW_SIZE)
    /\ UNCHANGED <<hmacFn, WINDOW_SIZE, msgHash, privKey, opts, pc, drbg,
                   recSig, signOutput, verifyCall, recoverCall, codecCall,
                   schnorrCall, hmacSha256Sync, signCalls>>

\* pointOf(id)._setWindowSize(windowSize)
SetWindowSize ==
  \E id \in PointIds : \E windowSize \in WindowSizes :
    /\ mathCall' =
         [op |-> "_setWindowSize", id |-> id, windowSize |-> windowSize]
    /\ WINDOW_SIZE' = setWindowSize_ws(WINDOW_SIZE, id, windowSize)
    /\ pointPrecomputes' = setWindowSize_cache(pointPrecomputes, id)
    /\ UNCHANGED <<hmacFn, msgHash, privKey, opts, pc, drbg, recSig,
                   signOutput, verifyCall, recoverCall, codecCall,
                   schnorrCall, hmacSha256Sync, signCalls>>

\* utils.precompute(windowSize, point): point is Point.BASE itself
\* (id "BASE") or another point, for which the object Q is made
Precompute ==
  \E id \in PointIds : \E windowSize \in WindowSizes :
    LET ws == setWindowSize_ws(WINDOW_SIZE, id, windowSize)
        cache == setWindowSize_cache(pointPrecomputes, id)
    IN /\ mathCall' =
            [op |-> "precompute", id |-> id, windowSize |-> windowSize,
             raised |-> Point_multiply_throws(pointOf(id), id, 3, ws)]
       /\ WINDOW_SIZE' = ws
       /\ pointPrecomputes' = Point_multiply_cache(id, 3, cache, ws)
       /\ UNCHANGED <<hmacFn, msgHash, privKey, opts, pc, drbg, recSig,
                      signOutput, verifyCall, recoverCall, codecCall,
                      schnorrCall, hmacSha256Sync, signCalls>>

NextCache == CacheMultiply \/ SetWindowSize \/ Precompute

SpecCache == InitCache /\ [][NextCache]_vars

\* The table wNAF builds for the object id with window size W
tableOf(id, W) == normalizeZ(precomputeWindow(fromAffine(pointOf(id)), W))

allZ1(table) == \A i \in 1..Len(table) : table[i].z = 1

\* A stored table is the one built with the current window size
storedTableCurrent(id) ==
  pointPrecomputes[id] # NoTable =>
    /\ WINDOW_SIZE[id] > 1
    /\ FieldBits % WINDOW_SIZE[id] = 0
    /\ pointPrecomputes[id] = tableOf(id, WINDOW_SIZE[id])
    /\ Len(pointPrecomputes[id]) =
         windowCount(WINDOW_SIZE[id]) * 2 ^ (WINDOW_SIZE[id] - 1)
    /\ allZ1(pointPrecomputes[id])

\* What one call does to the cache
cachePolicyStep ==
  LET id == mathCall'.id
      other == CHOOSE o \in PointIds : o # id
  IN /\ pointPrecomputes'[other] = pointPrecomputes[other]
     /\ WINDOW_SIZE'[other] = WINDOW_SIZE[other]
     /\ mathCall'.op = "multiply" =>
          /\ WINDOW_SIZE' = WINDOW_SIZE
          /\ pointPrecomputes[id] # NoTable =>
               /\ pointPrecomputes'[id] = pointPrecomputes[id]
               /\ mathCall'.builds = 0
          /\ (pointPrecomputes[id] = NoTable /\ WINDOW_SIZE[id] \in {0, 1}) =>
               pointPrecomputes'[id] = NoTable
          /\ (pointPrecomputes[id] = NoTable /\ WINDOW_SIZE[id] \notin {0, 1}
              /\ ~mathCall'.raised) =>
               /\ pointPrecomputes'[id] # NoTable
               /\ mathCall'.builds = 1
          /\ ~mathCall'.raised =>
               mathCall'.point =
                 toAffine(multiplyUnsafe(fromAffine(pointOf(id)),
                                         mathCall'.scalar))
     /\ mathCall'.op = "_setWindowSize" =>
          /\ pointPrecomputes'[id] = NoTable
          /\ WINDOW_SIZE'[id] = mathCall'.windowSize
     /\ mathCall'.op = "precompute" =>
          /\ WINDOW_SIZE'[id] = mathCall'.windowSize
          /\ pointPrecomputes'[id] # NoTable <=>
               (mathCall'.windowSize > 1 /\ ~mathCall'.raised)

\* C18: over any sequence of multiply and _setWindowSize calls on a point,
\* the cache entry of the point is created on the first multiply only when
\* the window size is not 1, later multiplies reuse the stored table and
\* build none, and _setWindowSize removes the entry; at every moment a stored
\* table is the one built with the current window size, all entries Z = 1.
C18_CachePolicy ==
  /\ [](\A id \in PointIds : storedTableCurrent(id))
  /\ [][cachePolicyStep]_vars

\* Q, given the window size 4, has had its table built and stored by a
\* multiply, next to the table of the base point with window size 2
C18_Witness ==
  /\ mathCall.op = "multiply"
  /\ mathCall.id = "Q"
  /\ mathCall.builds = 1
  /\ WINDOW_SIZE["Q"] = 4
  /\ WINDOW_SIZE["BASE"] = 2
  /\ pointPrecomputes["Q"] # NoTable
  /\ pointPrecomputes["BASE"] # NoTable
  /\ Len(pointPrecomputes["Q"]) # Len(pointPrecomputes["BASE"])

\* ------------------------------------------------------------------------
\* SpecWNAF: Point#multiply of two scalars by the same Point object, with the
\* additions of the two wNAF calls of each multiply recorded, starting from
\* every window size earlier _setWindowSize calls can have left on the
\* objects.
\* ------------------------------------------------------------------------

MaxWnafScalar == 6

WnafScalars == (1..MaxWnafScalar) \cup {CURVE_n \div 2, CURVE_n - 1}

\* Accumulators put in the place of the fake one
FakeChoices ==
  {JacobianPoint_ZERO, JacobianPoint_BASE,
   JacobianPoint_negate(JacobianPoint_BASE)}

InitWNAF ==
  /\ pointPrecomputes = [id \in PointIds |-> NoTable]
  /\ WINDOW_SIZE \in [PointIds -> WindowSizes]
  /\ InitNoSign
  /\ InitCalls

\* JacobianPoint#multiply with the fake accumulators of its two wNAF calls
\* replaced by f1 and f2
multiply_withFakes(s, w1, w2, f1, f2) ==
  multiply_join(s, [w1 EXCEPT !.f = f1], [w2 EXCEPT !.f = f2])

\* What multiply(scalar) did, from its two wNAF calls
wnafRecord(s, w1, w2, scalar) ==
  [scalar |-> scalar, k1 |-> s.k1, k2 |-> s.k2,
   adds1 |-> w1.adds, adds2 |-> w2.adds, left1 |-> w1.n, left2 |-> w2.n,
   f1 |-> w1.f, f2 |-> w2.f,
   point |-> multiply_join(s, w1, w2),
   withFakes |-> {multiply_withFakes(s, w1, w2, f1, f2) :
                    f1 \in FakeChoices, f2 \in FakeChoices}]

wnafMultiply(id, scalar, cache, ws) ==
  LET this == fromAffine(pointOf(id))
  IN wnafRecord(splitScalarEndo(scalar),
                wNAF(this, splitScalarEndo(scalar).k1, id, cache, ws),
                wNAF(this, splitScalarEndo(scalar).k2, id,
                     wNAF_cache(this, id, cache, ws), ws),
                scalar)

\* pointOf(id).multiply(a), then pointOf(id).multiply(b)
WnafMultiply ==
  \E id \in PointIds : \E a \in WnafScalars : \E b \in WnafScalars :
    LET raised == Point_multiply_throws(pointOf(id), id, a, WINDOW_SIZE)
                  \/ Point_multiply_throws(pointOf(id), id, b, WINDOW_SIZE)
        cache == Point_multiply_cache(id, a, pointPrecomputes, WINDOW_SIZE)
    IN /\ mathCall = NoMath
       /\ mathCall' =
            IF raised
              THEN [op |-> "wNAF", id |-> id, raised |-> TRUE]
              ELSE [op |-> "wNAF", id |-> id, raised |-> FALSE,
                    W |-> wNAF_W(id, WINDOW_SIZE),
                    a |-> wnafMultiply(id, a, pointPrecomputes, WINDOW_SIZE),
                    b |-> wnafMultiply(id, b, cache, WINDOW_SIZE)]
       /\ pointPrecomputes' = cache
       /\ UNCHANGED <<hmacFn, WINDOW_SIZE, msgHash, privKey, opts, pc, drbg,
                      recSig, signOutput, verifyCall, recoverCall, codecCall,
                      schnorrCall, hmacSha256Sync, signCalls>>

NextWNAF == WnafMultiply

SpecWNAF == InitWNAF /\ [][NextWNAF]_vars

\* The number the signed digits of `adds` stand for, digit i weighing 2^(W*i)
RECURSIVE digitsValue(_, _)
digitsValue(adds, W) ==
  IF adds = <<>> THEN 0
  ELSE Head(adds).wbits + (2 ^ W) * digitsValue(Tail(adds), W)

\* One addition per window: into p on a nonzero digit, into f on a zero one
onePerWindow(adds, k, left, W) ==
  /\ Len(adds) = windowCount(W)
  /\ left = 0
  /\ digitsValue(adds, W) = k
  /\ \A i \in 1..Len(adds) :
       /\ adds[i].wbits > 0 - 2 ^ (W - 1)
       /\ adds[i].wbits <= 2 ^ (W - 1)
       /\ adds[i].to = IF adds[i].wbits = 0 THEN "f" ELSE "p"

\* The additions of one multiply, and what it returns
fixedPattern(id, m, W) ==
  /\ onePerWindow(m.adds1, m.k1, m.left1, W)
  /\ onePerWindow(m.adds2, m.k2, m.left2, W)
  /\ m.withFakes = {m.point}
  /\ m.point.z = 1
  /\ toAffine(m.point) =
       toAffine(multiplyUnsafe(fromAffine(pointOf(id)), m.scalar))

\* C19: for a given window width W, wNAF performs exactly one point addition
\* in every window, into the real accumulator on a nonzero digit and into
\* the fake accumulator on a zero digit; the number and the order of the
\* additions are the same for any two scalars, and the fake accumulator never
\* influences the returned point.
C19_FixedAddPattern ==
  (mathCall.op = "wNAF" /\ ~mathCall.raised) =>
    /\ fixedPattern(mathCall.id, mathCall.a, mathCall.W)
    /\ fixedPattern(mathCall.id, mathCall.b, mathCall.W)
    /\ Len(mathCall.a.adds1) = Len(mathCall.b.adds1)
    /\ Len(mathCall.a.adds2) = Len(mathCall.b.adds2)

\* Two scalars whose digits are zero in different windows have been
\* multiplied with a window of two bits, the fake accumulator in use in both
C19_Witness ==
  /\ mathCall.op = "wNAF"
  /\ ~mathCall.raised
  /\ mathCall.W = 2
  /\ mathCall.a.f1 # JacobianPoint_ZERO
  /\ mathCall.b.f1 # JacobianPoint_ZERO
  /\ \E i \in 1..Len(mathCall.a.adds1) :
       mathCall.a.adds1[i].to = "p" /\ mathCall.b.adds1[i].to = "f"
  /\ \E i \in 1..Len(mathCall.a.adds1) :
       mathCall.a.adds1[i].to = "f" /\ mathCall.b.adds1[i].to = "p"

\* ------------------------------------------------------------------------
\* SpecCandidates: one sign call run to its end, with HMAC functions that
\* make every reason to reject a candidate k happen: the constant blocks 0
\* and 255 (k outside [1, n)), 36 (r = 0: the x of 36*G is n) and 1 (with
\* m = 55 and d = 42, s = 0), next to the hash-like ones.
\* ------------------------------------------------------------------------

CandidateBlocks == {0, 1, 36, 255}

CandidateHmacFns == {0 - b - 1 : b \in CandidateBlocks} \cup (0..MaxHashFn)

CandidateHashes == {<<0>>, <<55>>, <<74>>}

CandidatePrivKeys == {1, 42, CURVE_n - 1}

InitCandidates ==
  /\ InitModule
  /\ InitCalls
  /\ hmacFn \in CandidateHmacFns
  /\ msgHash \in CandidateHashes
  /\ privKey \in CandidatePrivKeys
  /\ opts \in {o \in SignOpts : ~o.recovered /\ ~o.extraEntropy.given}
  /\ pc = "start"
  /\ drbg = HmacDrbg_new
  /\ recSig = NoRecSig
  /\ signOutput = NoOutput

NextCandidates == SignStart \/ SignGenerate

SpecCandidates == InitCandidates /\ [][NextCandidates]_vars

\* The candidate nonce the next generate() hands to kmdToSig
candidateK == bytesToNumber(generate(hmacFn, drbg).v)

\* r = (k*G).x mod n and s = k^-1 * (m + d*r) mod n of a candidate k
candidateR(k) ==
  mod(toAffine(multiplyUnsafe(JacobianPoint_BASE, k)).x, CURVE_n)

candidateS(k) ==
  mod(invert(k, CURVE_n) * mod(bits2int(msgHash) + privKey * candidateR(k),
                               CURVE_n), CURVE_n)

\* The reasons to reject a candidate
candidateRejected(k) ==
  \/ k < 1
  \/ k >= CURVE_n
  \/ candidateR(k) = 0
  \/ candidateS(k) = 0

inScalarRange(x) == 1 <= x /\ x < CURVE_n

\* One turn of the loop on a candidate: rejected and the next one asked
\* for, or turned into the signature the call returns
candidateTurn ==
  (pc = "generate" /\ drbg.counter < DRBG_MAX_TRIES) =>
    IF candidateRejected(candidateK)
      THEN /\ pc' = "generate"
           /\ drbg' = reseed(hmacFn, generate(hmacFn, drbg), <<>>)
           /\ signOutput' = NoOutput
      ELSE /\ pc' = "returned"
           /\ signedSig'.r = candidateR(candidateK)
           /\ signedSig'.s \in {candidateS(candidateK),
                                CURVE_n - candidateS(candidateK)}

\* C21: during signing a candidate nonce k is rejected, and the next
\* candidate requested, when k is outside [1, n), when r = (k*G).x mod n is
\* 0, or when s = k^-1 * (m + d*r) mod n is 0; every signature sign returns
\* has both r and s in [1, n).
C21_CandidatesRejected ==
  /\ [][candidateTurn]_vars
  /\ [](pc = "returned" =>
          inScalarRange(signedSig.r) /\ inScalarRange(signedSig.s))

\* A candidate k in [1, n) with r # 0 was rejected for s = 0, and the same
\* candidate comes next
C21_Witness ==
  /\ pc = "generate"
  /\ drbg.counter >= 1
  /\ hmacFn < 0
  /\ inScalarRange(candidateK)
  /\ candidateR(candidateK) # 0
  /\ candidateS(candidateK) = 0

\* ------------------------------------------------------------------------
\* SpecSplit: splitScalarEndo on every scalar of [1, n)
\* ------------------------------------------------------------------------

InitSplit ==
  /\ InitModule
  /\ InitNoSign
  /\ InitCalls

\* splitScalarEndo(k), once
SplitCall ==
  /\ mathCall = NoMath
  /\ \E k \in 1..(CURVE_n - 1) :
       mathCall' =
         [op |-> "splitScalarEndo", k |-> k,
          raised |-> splitScalarEndo_throws(k),
          split |-> splitScalarEndo(k)]
  /\ UNCHANGED <<hmacFn, pointPrecomputes, WINDOW_SIZE, msgHash, privKey, opts,
                 pc, drbg, recSig, signOutput, verifyCall, recoverCall,
                 codecCall, schnorrCall, hmacSha256Sync, signCalls>>

NextSplit == SplitCall

SpecSplit == InitSplit /\ [][NextSplit]_vars

\* The scalar lambda of the endomorphism: lambda * (x, y) = (beta * x, y)
ENDO_lambda ==
  CHOOSE l \in 2..(CURVE_n - 1) :
    toAffine(multiplyUnsafe(JacobianPoint_BASE, l)) =
      Point(mod(CURVE_beta * CURVE_Gx, CURVE_P), CURVE_Gy)

\* The half a flag and a magnitude stand for
signedHalf(neg, k) == IF neg THEN 0 - k ELSE k

\* C22: for every scalar k in [1, n), splitScalarEndo does not raise and
\* returns k1, k2 <= 2^128 with sign flags such that
\* (+-k1) + (+-k2) * lambda = k (mod n), a half being negative exactly where
\* its flag is set.
C22_SplitRecombines ==
  mathCall.op = "splitScalarEndo" =>
    /\ ~mathCall.raised
    /\ 0 <= mathCall.split.k1
    /\ mathCall.split.k1 <= POW_2_128
    /\ 0 <= mathCall.split.k2
    /\ mathCall.split.k2 <= POW_2_128
    /\ mod(signedHalf(mathCall.split.k1neg, mathCall.split.k1)
           + signedHalf(mathCall.split.k2neg, mathCall.split.k2) * ENDO_lambda,
           CURVE_n) = mathCall.k

\* A scalar has been split into a negative first half and a positive second
\* half, neither of them 0
C22_Witness ==
  /\ mathCall.op = "splitScalarEndo"
  /\ ~mathCall.raised
  /\ mathCall.split.k1neg
  /\ ~mathCall.split.k2neg
  /\ mathCall.split.k1 > 1
  /\ mathCall.split.k2 > 1

\* ------------------------------------------------------------------------
\* SpecBothMultiplies: P.multiply(k) by a Point object with a window size,
\* first with no table stored and then again with the table the first call
\* stored, next to multiply(k) by an object without window size and to
\* multiplyUnsafe(k), for every scalar of [1, n) and every window size wNAF
\* permits.
\* ------------------------------------------------------------------------

MaxBothPoint == 2

\* The window sizes wNAF does not raise on
PermittedWindows == {W \in 1..FieldBits : FieldBits % W = 0}

\* Point.BASE itself, and the object Q holding j*G or -G
BothPoints ==
  {[id |-> "BASE", pt |-> Point_BASE]} \cup
  {[id |-> "Q", pt |-> toAffine(multiplyUnsafe(JacobianPoint_BASE, j))] :
     j \in (2..MaxBothPoint) \cup {CURVE_n - 1}}

InitBothMultiplies ==
  /\ pointPrecomputes = [id \in PointIds |-> NoTable]
  /\ WINDOW_SIZE \in {[id \in PointIds |-> W] : W \in PermittedWindows}
  /\ InitNoSign
  /\ InitCalls

\* What one multiply did, from its two wNAF calls: the point it returned,
\* what the calls left of k1 and k2, their digits, the length of the table
\* they read, and how many tables they built
bothRecord(s, w1, w2, tableLen, builds) ==
  [point |-> toAffine(multiply_join(s, w1, w2)),
   left1 |-> w1.n, left2 |-> w2.n, adds1 |-> w1.adds, adds2 |-> w2.adds,
   tableLen |-> tableLen, builds |-> builds]

\* JacobianPoint#multiply(scalar, affinePoint), `stored` being
\* pointPrecomputes after its first wNAF call
bothMultiply(this, id, scalar, cache, stored, ws) ==
  bothRecord(splitScalarEndo(scalar),
             wNAF(this, splitScalarEndo(scalar).k1, id, cache, ws),
             wNAF(this, splitScalarEndo(scalar).k2, id, stored, ws),
             windowCount(wNAF_W(wNAF_affinePoint(this, id), ws))
               * 2 ^ (wNAF_W(wNAF_affinePoint(this, id), ws) - 1),
             wNAF_builds(this, id, cache) + wNAF_builds(this, id, stored))

bothCallRecord(P, k, this, cache, stored, ws) ==
  [op |-> "multiplyBoth", point |-> P, k |-> k, W |-> ws[P.id],
   served |-> IF cache[P.id] # NoTable THEN "stored"
              ELSE IF stored[P.id] # NoTable THEN "built" ELSE "none",
   raised |-> \/ multiply_throws(this, k, P.id, ws)
              \/ multiply_throws(this, k, NewPoint, ws)
              \/ multiplyUnsafe_throws(this, k),
   windowed |-> bothMultiply(this, P.id, k, cache, stored, ws),
   plain |-> bothMultiply(this, NewPoint, k, cache, cache, ws),
   unsafe |-> toAffine(multiplyUnsafe(this, k))]

\* P.multiply(k) by the object P.id, by a fresh object holding the same
\* point, and multiplyUnsafe(k): for any P and k at first, and once more for
\* the same P and k when the first call has stored a table
BothMultiplyCall ==
  \E P \in BothPoints : \E k \in 1..(CURVE_n - 1) :
    /\ \/ mathCall = NoMath
       \/ /\ mathCall.op = "multiplyBoth"
          /\ mathCall.served = "built"
          /\ mathCall.point = P
          /\ mathCall.k = k
    /\ pointPrecomputes' =
         multiply_cache(fromAffine(P.pt), P.id, pointPrecomputes, WINDOW_SIZE)
    /\ mathCall' =
         bothCallRecord(P, k, fromAffine(P.pt), pointPrecomputes,
                        pointPrecomputes', WINDOW_SIZE)
    /\ UNCHANGED <<hmacFn, WINDOW_SIZE, msgHash, privKey, opts, pc, drbg,
                   recSig, signOutput, verifyCall, recoverCall, codecCall,
                   schnorrCall, hmacSha256Sync, signCalls>>

NextBothMultiplies == BothMultiplyCall

SpecBothMultiplies == InitBothMultiplies /\ [][NextBothMultiplies]_vars

\* The 0-based index wNAF reads the table at in window i (1-based), given
\* the digit of the window
tableIndex(adds, i, W) ==
  (i - 1) * 2 ^ (W - 1)
    + (IF adds[i].wbits = 0 THEN 0
       ELSE IF adds[i].wbits < 0 THEN (0 - adds[i].wbits) - 1
       ELSE adds[i].wbits - 1)

readsInside(adds, tableLen, W) ==
  \A i \in 1..Len(adds) :
    0 <= tableIndex(adds, i, W) /\ tableIndex(adds, i, W) < tableLen

\* One multiply consumed k1 and k2 whole, read inside its table of the
\* window size W, and returned the point multiplyUnsafe returns
sameAsUnsafe(m, W, unsafe) ==
  /\ m.point = unsafe
  /\ m.left1 = 0
  /\ m.left2 = 0
  /\ readsInside(m.adds1, m.tableLen, W)
  /\ readsInside(m.adds2, m.tableLen, W)

\* C23: for every curve point P and scalar k in [1, n), multiply(k) and
\* multiplyUnsafe(k) denote the same affine point, and the result of multiply
\* is the same whether the window table of P is absent, freshly built or
\* served from the cache, for every permitted window size; wNAF consumes
\* every bit of k1 and k2 and never reads outside the precomputed table.
C23_MultiplyRefinesUnsafe ==
  mathCall.op = "multiplyBoth" =>
    /\ ~mathCall.raised
    /\ sameAsUnsafe(mathCall.plain, 1, mathCall.unsafe)
    /\ sameAsUnsafe(mathCall.windowed, mathCall.W, mathCall.unsafe)
    /\ mathCall.served = (IF mathCall.W = 1 THEN "none"
                          ELSE IF mathCall.windowed.builds = 1 THEN "built"
                          ELSE "stored")
    /\ mathCall.served = "stored" => mathCall.windowed.builds = 0
    /\ mathCall.W # 1 =>
         Len(pointPrecomputes[mathCall.point.id]) = mathCall.windowed.tableLen

\* A scalar whose halves are both nonzero has been multiplied into a point
\* other than the base point with a window of two bits, the table served
\* from the cache
C23_Witness ==
  /\ mathCall.op = "multiplyBoth"
  /\ mathCall.point.id = "Q"
  /\ mathCall.W = 2
  /\ mathCall.served = "stored"
  /\ mathCall.windowed.point = mathCall.unsafe
  /\ \E i \in 1..Len(mathCall.windowed.adds1) :
       mathCall.windowed.adds1[i].wbits < 0
  /\ \E i \in 1..Len(mathCall.windowed.adds2) :
       mathCall.windowed.adds2[i].wbits # 0

\* ------------------------------------------------------------------------
\* SpecPoints: the Jacobian points add, double, negate, subtract, multiply
\* and multiplyUnsafe produce, starting from JacobianPoint.BASE,
\* JacobianPoint.ZERO and fromAffine of valid affine points.  mathCall holds
\* two points: `a`, the one the operations are applied to, and `b`, a point
\* produced earlier and kept as the second operand.
\* ------------------------------------------------------------------------

MaxPointOps == 3

MaxStartPoint == 2

MaxPointScalar == 2

PointScalars == (1..MaxPointScalar) \cup {CURVE_n - 1}

StartPoints ==
  {JacobianPoint_BASE, JacobianPoint_ZERO} \cup
  {fromAffine(toAffine(multiplyUnsafe(JacobianPoint_BASE, j))) :
     j \in (2..MaxStartPoint) \cup {CURVE_n - 1}}

twoPoints(a, b, steps) ==
  [op |-> "points", a |-> a, b |-> b, steps |-> steps]

InitPoints ==
  /\ InitModule
  /\ InitNoSign
  /\ verifyCall = NoVerify
  /\ recoverCall = NoRecover
  /\ codecCall = NoCodec
  /\ schnorrCall = NoSchnorr
  /\ hmacSha256Sync = "undefined"
  /\ signCalls = NoSignCalls
  /\ \E a \in StartPoints : \E b \in StartPoints :
       mathCall = twoPoints(a, b, 0)

\* a = a.op(...): the step counter bounds the length of the sequence
pointStep(a) ==
  /\ mathCall.steps < MaxPointOps
  /\ mathCall' = twoPoints(a, mathCall.b, mathCall.steps + 1)
  /\ UNCHANGED <<hmacFn, WINDOW_SIZE, msgHash, privKey, opts, pc, drbg,
                 recSig, signOutput, verifyCall, recoverCall, codecCall,
                 schnorrCall, hmacSha256Sync, signCalls>>

PointDouble ==
  pointStep(JacobianPoint_double(mathCall.a)) /\ UNCHANGED pointPrecomputes

PointNegate ==
  pointStep(JacobianPoint_negate(mathCall.a)) /\ UNCHANGED pointPrecomputes

PointAdd ==
  /\ pointStep(JacobianPoint_add(mathCall.a, mathCall.b))
  /\ UNCHANGED pointPrecomputes

PointSubtract ==
  /\ pointStep(JacobianPoint_subtract(mathCall.a, mathCall.b))
  /\ UNCHANGED pointPrecomputes

\* a.multiply(k), without affinePoint
PointMultiply ==
  \E k \in PointScalars :
    /\ ~multiply_throws(mathCall.a, k, NoPoint, WINDOW_SIZE)
    /\ pointStep(multiply(mathCall.a, k, NoPoint, pointPrecomputes,
                          WINDOW_SIZE))
    /\ pointPrecomputes' =
         multiply_cache(mathCall.a, NoPoint, pointPrecomputes, WINDOW_SIZE)

PointMultiplyUnsafe ==
  \E k \in PointScalars :
    /\ ~multiplyUnsafe_throws(mathCall.a, k)
    /\ pointStep(multiplyUnsafe(mathCall.a, k))
    /\ UNCHANGED pointPrecomputes

\* The point produced is kept as the second operand, and the operations go
\* on from a start point
PointKeep ==
  /\ mathCall.steps < MaxPointOps
  /\ \E a \in StartPoints :
       mathCall' = twoPoints(a, mathCall.a, mathCall.steps)
  /\ UNCHANGED <<hmacFn, pointPrecomputes, WINDOW_SIZE, msgHash, privKey,
                 opts, pc, drbg, recSig, signOutput, verifyCall, recoverCall,
                 codecCall, schnorrCall, hmacSha256Sync, signCalls>>

NextPoints ==
  \/ PointDouble
  \/ PointNegate
  \/ PointAdd
  \/ PointSubtract
  \/ PointMultiply
  \/ PointMultiplyUnsafe
  \/ PointKeep

SpecPoints == InitPoints /\ [][NextPoints]_vars

\* A Jacobian point that stands for the identity: Z = 0, or the (0, 0, 1)
\* normalizeZ makes of it
representsIdentity(p) == p.z = 0 \/ (p.x = 0 /\ p.y = 0 /\ p.z = 1)

\* The test of add: `X === 0n || Y === 0n`
addTakesForIdentity(p) == p.x = 0 \/ p.y = 0

\* Y^2 = X^3 + b * Z^6
onCurveJacobian(p) ==
  mod(p.y * p.y, CURVE_P) =
    mod(p.x * p.x * p.x
        + CURVE_b * mod(mod(p.z * p.z, CURVE_P) * mod(p.z * p.z, CURVE_P)
                        * mod(p.z * p.z, CURVE_P), CURVE_P), CURVE_P)

pointAsClaimed(p) ==
  IF representsIdentity(p) THEN p.x = 0
  ELSE p.x # 0 /\ p.y # 0 /\ onCurveJacobian(p)

\* C24: every Jacobian point reachable from BASE, ZERO and valid affine
\* points through add, double, negate, subtract, multiply and multiplyUnsafe
\* that represents the identity has X = 0, and no reachable point that does
\* not has X = 0 or Y = 0: the coordinate test of add recognises the
\* identity exactly.
C24_IdentityHasZeroX ==
  mathCall.op = "points" =>
    /\ pointAsClaimed(mathCall.a)
    /\ pointAsClaimed(mathCall.b)
    /\ addTakesForIdentity(mathCall.a) <=> representsIdentity(mathCall.a)

\* The identity has been reached with Z = 0 and a Y that is neither 0 nor 1,
\* the second operand being a finite point with Z # 1
C24_Witness ==
  /\ mathCall.op = "points"
  /\ mathCall.a.z = 0
  /\ mathCall.a.y > 1
  /\ mathCall.b.z > 1
  /\ mathCall.steps >= 2

\* ------------------------------------------------------------------------
\* Compact signatures handed to normalizeSignature.  The shortest DER
\* signature has 8 bytes (30 06 02 01 r 02 01 s), so the compact form is
\* taken at 4 bytes for r and 4 for s, the least width at which it is long
\* enough to hold a DER structure, with a group order at the top of the
\* 4-byte range that 32-bit integers hold.
\* ------------------------------------------------------------------------

WideBytes == 4

WideOrder == 2147483647

WideCodec == SigCodec(WideBytes, WideOrder)

MaxDerR == 2

MaxDerS == 1

\* First halves: the head of a DER signature of two one-byte integers, heads
\* that differ from it in one byte, and the ends of [1, n)
WideHeads ==
  {<<48, 2 * WideBytes - 2, 2, 1>>, <<48, 2 * WideBytes - 2, 2, 2>>,
   <<48, 2 * WideBytes - 3, 2, 1>>, <<49, 2 * WideBytes - 2, 2, 1>>,
   <<48, 2 * WideBytes - 2, 3, 1>>, <<0, 0, 0, 1>>,
   padStart(numberToHex(WideOrder - 1), WideBytes)}

\* Second halves: r', the tag and length of s', and s'; and others
WideTails ==
  {<<rp, 2, 1, sp>> : rp \in (0..MaxDerR) \cup {127},
                      sp \in (0..MaxDerS) \cup {128, 255}}
    \cup {<<1, 3, 1, 1>>, <<1, 2, 2, 1>>, <<0, 0, 0, 1>>}

\* The valid signatures (r, s) with these halves
WideSignatures ==
  {sig \in {Signature(bytesToNumber(h), bytesToNumber(t)) :
              h \in WideHeads, t \in WideTails} :
     ~Signature_throws_in(WideCodec, sig.r, sig.s)}

InitCompact ==
  /\ InitModule
  /\ InitNoSign
  /\ InitCalls

\* normalizeSignature(sig.toCompactRawBytes()), once: the first step of
\* verify and of Point.fromSignature
NormalizeCompact ==
  /\ mathCall = NoMath
  /\ \E sig \in WideSignatures :
       mathCall' =
         [op |-> "normalizeSignature", sig |-> sig,
          bytes |-> toCompactRawBytes_in(WideCodec, sig),
          raised |->
            normalizeSignature_throws_in(WideCodec,
                                         toCompactRawBytes_in(WideCodec, sig)),
          asDER |-> ~fromDER_throws_in(WideCodec,
                                       toCompactRawBytes_in(WideCodec, sig)),
          read |-> normalizeSignature_in(WideCodec,
                                         toCompactRawBytes_in(WideCodec, sig))]
  /\ UNCHANGED <<hmacFn, pointPrecomputes, WINDOW_SIZE, msgHash, privKey, opts,
                 pc, drbg, recSig, signOutput, verifyCall, recoverCall,
                 codecCall, schnorrCall, hmacSha256Sync, signCalls>>

NextCompact == NormalizeCompact

SpecCompact == InitCompact /\ [][NextCompact]_vars

\* C25: the compact encoding of a valid (r, s) is read back by
\* normalizeSignature as that same (r, s), never as a DER signature carrying
\* other values
C25_CompactReadBack ==
  mathCall.op = "normalizeSignature" =>
    /\ ~mathCall.raised
    /\ mathCall.read = mathCall.sig

\* Whenever the DER reading fails, the compact encoding is read back as it is
C25_ReadBackUnlessDER ==
  mathCall.op = "normalizeSignature" =>
    /\ ~mathCall.raised
    /\ (~mathCall.asDER => mathCall.read = mathCall.sig)
    /\ (mathCall.asDER => mathCall.read # mathCall.sig)

====
